---- MODULE Spec2Model ----
(***************************************************************************)
(* Model of tk-substancepainter: the ShotGrid menu of the engine           *)
(* (python/tk_substancepainter/menu_generation.py) as a state machine.     *)
(*                                                                         *)
(* Text (command names, labels, display names) is a sequence of one-       *)
(* character strings, so that str.split and the lexicographic order used   *)
(* by list.sort / sorted are computed and not assumed.                     *)
(*                                                                         *)
(* A QMenu is the sequence of the QAction / QMenu objects created below    *)
(* it, in creation order.  QMenu.addAction and QMenu.addMenu append, so    *)
(* the visible order of the entries of one menu is the creation order of   *)
(* the nodes that have that menu as parent.  Node ids are positions in     *)
(* the sequence; id 0 is MenuGenerator._shotgrid_menu itself.              *)
(*                                                                         *)
(* Not modelled: the 'tooltip' and 'enable_callback' properties of a       *)
(* command (they decorate a leaf and do not change the tree), icons, and   *)
(* the Qt signal connection itself (a leaf records the callback it is      *)
(* connected to).                                                          *)
(***************************************************************************)
EXTENDS Integers, Sequences, FiniteSets, TLC

VARIABLES
    commands,        \* engine.commands: command name -> command dict
    menu_favourites, \* engine.get_setting("menu_favourites")
    context,         \* engine.context
    shotgrid_menu,   \* MenuGenerator._shotgrid_menu: its tree of actions
    context_menu,    \* MenuGenerator._context_menu: node id, NoMenu if unset
    menu_items,      \* the AppCommand list of the last setup_menu_items
    last_call,       \* history: the MenuGenerator method that ran last
    os_name,         \* os.name: which os.path the interpreter uses
    paths,           \* the argument of _group_texture_sequences
    groups,          \* the dict 'groups' of the last call, as it returned
    grouped,         \* what the last _group_texture_sequences call returned
    previous_grouped, \* history: what the call before the last returned
    calls,           \* history: number of _group_texture_sequences calls
    parent_properties, \* item.parent.properties
    item_properties, \* item.properties
    publish_state,   \* how far the publish of the item has come
    publish_log,     \* history: the files copied and publishes registered
    engine_current,  \* sgtk.platform.current_engine() is an engine
    automatic_context_switch, \* engine.get_setting("automatic_context_switch")
    callbacks_registered, \* CallbackHandler.callbacks_registered
    connections,     \* DISPATCHER: connections of on_project_event per event
    project,         \* sp.project: is_open() and file_path()
    event_result,    \* history: what the last on_project_event call did
    windows_path_mappings, \* engine.get_setting("windows_path_mappings")
    returned_path,   \* history: how the last get_project_path call ended
    environ,         \* os.environ of the Substance Painter process
    environ_before,  \* history: os.environ when start_plugin was called
    sgtk_importable, \* 'import sgtk' succeeds in that process
    engine_started,  \* sgtk.platform.start_engine has returned an engine
    plugin_state,    \* how far start_plugin has come
    plugin_trace,    \* history: what start_plugin did, in order
    files,           \* the launcher's file system: path -> content
    dirs,            \* the launcher's file system: existing directories
    copy_result,     \* history: how the last copy_file call ended
    launch_state     \* history: how prepare_launch ended

menu_vars == <<commands, menu_favourites, context, shotgrid_menu, context_menu,
               menu_items, last_call>>

grouper_vars == <<os_name, paths, groups, grouped, previous_grouped, calls>>

publish_vars == <<parent_properties, item_properties, publish_state,
                  publish_log>>

\* What the menu generator does not touch.
event_vars == <<engine_current, automatic_context_switch,
                callbacks_registered, connections, project, event_result>>

engine_path_vars == <<windows_path_mappings, returned_path>>

bootstrap_vars == <<environ, environ_before, sgtk_importable, engine_started,
                    plugin_state, plugin_trace>>

launcher_vars == <<files, dirs, copy_result, launch_state>>

startup_vars == <<engine_path_vars, bootstrap_vars, launcher_vars>>

outside_menu == <<grouper_vars, publish_vars, event_vars, startup_vars>>

vars == <<menu_vars, grouper_vars, publish_vars, event_vars, startup_vars>>

(***************************************************************************)
(* Bounds of the model.                                                    *)
(***************************************************************************)
MaxCmds == 3
MaxFavs == 2
MaxPaths == 3
MaxCalls == 2

(***************************************************************************)
(* Text.                                                                   *)
(***************************************************************************)
Slash == "/"

\* Unicode code point of a character (ord), for the characters in use.
Ord(c) ==
    CASE c = " " -> 32
      [] c = "/" -> 47
      [] c = "A" -> 65
      [] c = "B" -> 66
      [] c = "I" -> 73
      [] c = "O" -> 79
      [] c = "P" -> 80
      [] c = "e" -> 101
      [] c = "h" -> 104
      [] c = "m" -> 109
      [] c = "r" -> 114
      [] c = "s" -> 115
      [] c = "t" -> 116

\* Python's str < str: lexicographic by code point, a proper prefix first.
RECURSIVE StrLess(_, _)
StrLess(s, t) ==
    IF t = <<>> THEN FALSE
    ELSE IF s = <<>> THEN TRUE
    ELSE IF Ord(Head(s)) < Ord(Head(t)) THEN TRUE
    ELSE IF Ord(Head(s)) > Ord(Head(t)) THEN FALSE
    ELSE StrLess(Tail(s), Tail(t))

\* str.split("/"): always at least one part; "" gives [""], "A/" gives
\* ["A", ""].
RECURSIVE SplitAcc(_, _, _)
SplitAcc(s, cur, acc) ==
    IF s = <<>> THEN Append(acc, cur)
    ELSE IF Head(s) = Slash THEN SplitAcc(Tail(s), <<>>, Append(acc, cur))
    ELSE SplitAcc(Tail(s), Append(cur, Head(s)), acc)

Split(s) == SplitAcc(s, <<>>, <<>>)

\* The fixed labels of the menu.  "Other Items" is sorted among the app
\* display names and is spelled out; the other three are only ever compared
\* for equality and are kept as one token each.
OtherItems == <<"O", "t", "h", "e", "r", " ", "I", "t", "e", "m", "s">>
JumpToShotGridLabel == <<"Jump to ShotGrid">>
JumpToFileSystemLabel == <<"Jump to File System">>
SgtkDisabledLabel == <<"Sgtk is disabled.">>

(***************************************************************************)
(* list.sort(key=lambda x: x.name) and sorted(keys): stable, ascending.    *)
(***************************************************************************)
RECURSIVE InsertByName(_, _)
InsertByName(s, x) ==
    IF s = <<>> THEN <<x>>
    ELSE IF StrLess(x.name, Head(s).name) THEN <<x>> \o s
    ELSE <<Head(s)>> \o InsertByName(Tail(s), x)

RECURSIVE SortByNameAcc(_, _)
SortByNameAcc(s, acc) ==
    IF s = <<>> THEN acc
    ELSE SortByNameAcc(Tail(s), InsertByName(acc, Head(s)))

SortByName(s) == SortByNameAcc(s, <<>>)

\* The keys in descending order.
RECURSIVE ReverseSortedKeys(_)
ReverseSortedKeys(keys) ==
    IF keys = {} THEN <<>>
    ELSE LET most == CHOOSE k \in keys :
                        \A other \in keys \ {k} : StrLess(other, k)
         IN  <<most>> \o ReverseSortedKeys(keys \ {most})

RECURSIVE SortedKeys(_)
SortedKeys(keys) ==
    IF keys = {} THEN <<>>
    ELSE LET least == CHOOSE k \in keys :
                         \A other \in keys \ {k} : StrLess(k, other)
         IN  <<least>> \o SortedKeys(keys \ {least})

(***************************************************************************)
(* The Qt menu tree.                                                       *)
(***************************************************************************)
RootMenu == 0
NoMenu == -1
NoCallback == <<>>

\* QMenu.actions(): the entries of one menu, in order.
RECURSIVE ActionsFrom(_, _, _)
ActionsFrom(tree, menu, i) ==
    IF i > Len(tree) THEN <<>>
    ELSE IF tree[i].parent = menu
         THEN <<i>> \o ActionsFrom(tree, menu, i + 1)
         ELSE ActionsFrom(tree, menu, i + 1)

Actions(tree, menu) == ActionsFrom(tree, menu, 1)

\* MenuGenerator._add_divider
AddDivider(tree, parent_menu) ==
    Append(tree, [parent |-> parent_menu, kind |-> "separator",
                  text |-> <<>>, callback |-> NoCallback])

\* MenuGenerator._add_sub_menu: the new QMenu is the last node.
AddSubMenu(tree, menu_name, parent_menu) ==
    Append(tree, [parent |-> parent_menu, kind |-> "menu",
                  text |-> menu_name, callback |-> NoCallback])

\* MenuGenerator._add_menu_item
AddMenuItem(tree, name, parent_menu, callback) ==
    Append(tree, [parent |-> parent_menu, kind |-> "action",
                  text |-> name, callback |-> callback])

\* QAction.menu(): the QMenu a menu action stands for, None for a plain one.
ActionMenu(tree, i) == IF tree[i].kind = "menu" THEN i ELSE NoMenu

\* AppCommand._find_sub_menu_item: the first action with that text decides.
RECURSIVE FindIn(_, _, _)
FindIn(tree, acts, label) ==
    IF acts = <<>> THEN NoMenu
    ELSE IF tree[Head(acts)].text = label THEN ActionMenu(tree, Head(acts))
    ELSE FindIn(tree, Tail(acts), label)

FindSubMenuItem(tree, menu, label) == FindIn(tree, Actions(tree, menu), label)

(***************************************************************************)
(* AppCommand.                                                             *)
(***************************************************************************)
NoneName == "None"

\* engine.apps: app instance name -> app object.  App objects are compared
\* by identity (uid); display_name is what the menu shows.
EngineApps ==
    [tk_multi_a |-> [uid |-> "app_a", display_name |-> <<"A">>],
     tk_multi_p |-> [uid |-> "app_p", display_name |-> <<"P">>]]

\* AppCommand.__init__
AppCommand(name, command_dict) ==
    [name |-> name,
     properties |-> command_dict.properties,
     callback |-> command_dict.callback,
     favourite |-> FALSE]

\* AppCommand.get_app_name; None is the one-token text <<"None">>.
GetAppName(cmd) ==
    IF "app" \in DOMAIN cmd.properties
    THEN cmd.properties["app"].display_name
    ELSE <<NoneName>>

\* AppCommand.get_app_instance_name
GetAppInstanceName(cmd) ==
    IF "app" \notin DOMAIN cmd.properties THEN NoneName
    ELSE LET app_instance == cmd.properties["app"]
             found == {n \in DOMAIN EngineApps : EngineApps[n] = app_instance}
         IN  IF found # {} THEN CHOOSE n \in found : TRUE ELSE NoneName

\* AppCommand.get_type
GetType(cmd) ==
    IF "type" \in DOMAIN cmd.properties THEN cmd.properties["type"]
    ELSE "default"

\* AppCommand.add_command_to_menu, the loop over parts[:-1] and the leaf.
RECURSIVE AddParts(_, _, _, _)
AddParts(tree, parent_menu, parts, cmd) ==
    IF Len(parts) = 1
    THEN AddMenuItem(tree, parts[1], parent_menu, cmd.callback)
    ELSE LET sub_menu == FindSubMenuItem(tree, parent_menu, Head(parts))
         IN  IF sub_menu # NoMenu
             THEN AddParts(tree, sub_menu, Tail(parts), cmd)
             ELSE LET made == AddSubMenu(tree, Head(parts), parent_menu)
                  IN  AddParts(made, Len(made), Tail(parts), cmd)

\* The whole name as one leaf, no submenus.
AddCommandUnsplit(tree, cmd, menu) ==
    AddMenuItem(tree, cmd.name, menu, cmd.callback)

AddCommandToMenu(tree, cmd, menu) == AddParts(tree, menu, Split(cmd.name), cmd)

(***************************************************************************)
(* MenuGenerator.                                                          *)
(***************************************************************************)
JumpToSg == <<"_jump_to_sg">>
JumpToFs == <<"_jump_to_fs">>

\* A clear that removes nothing.
KeepActions(tree) == tree

\* QMenu.clear(): every action of the menu is removed.
Clear(tree) == <<>>

\* MenuGenerator._add_context_menu: the tree and the id of the new ctx_menu.
AddContextMenu(tree, ctx) ==
    LET with_menu == AddSubMenu(tree, ctx.name, RootMenu)
        ctx_menu == Len(with_menu)
        with_sg == AddMenuItem(with_menu, JumpToShotGridLabel, ctx_menu,
                               JumpToSg)
        with_fs == IF ctx.filesystem_locations # <<>>
                   THEN AddMenuItem(with_sg, JumpToFileSystemLabel, ctx_menu,
                                    JumpToFs)
                   ELSE with_sg
    IN  [tree |-> AddDivider(with_fs, ctx_menu), ctx_menu |-> ctx_menu]

\* MenuGenerator.setup_menu_items, lines 80-86: one AppCommand per item of
\* engine.commands, then the sort by name.
RECURSIVE BuildItems(_)
BuildItems(cmds) ==
    IF cmds = <<>> THEN <<>>
    ELSE <<AppCommand(Head(cmds).name, Head(cmds).details)>>
         \o BuildItems(Tail(cmds))

\* The list left in the iteration order of the dict.
UnsortedItems(cmds) == BuildItems(cmds)

SortedItems(cmds) == SortByName(BuildItems(cmds))

\* The scan matching on the command name alone.
RECURSIVE FavouriteScanByName(_, _, _)
FavouriteScanByName(st, fav, i) ==
    IF i > Len(st.items) THEN st
    ELSE LET cmd == st.items[i]
         IN  IF cmd.name = fav.name
             THEN FavouriteScanByName(
                      [tree |-> AddCommandToMenu(st.tree, cmd, RootMenu),
                       items |-> [st.items EXCEPT ![i].favourite = TRUE]],
                      fav, i + 1)
             ELSE FavouriteScanByName(st, fav, i + 1)

\* MenuGenerator._add_favourite: the scan over menu_items from position i.
\* st is [tree, items].
RECURSIVE FavouriteScan(_, _, _)
FavouriteScan(st, fav, i) ==
    IF i > Len(st.items) THEN st
    ELSE LET cmd == st.items[i]
         IN  IF /\ GetAppInstanceName(cmd) = fav.app_instance
                /\ cmd.name = fav.name
             THEN FavouriteScan(
                      [tree |-> AddCommandToMenu(st.tree, cmd, RootMenu),
                       items |-> [st.items EXCEPT ![i].favourite = TRUE]],
                      fav, i + 1)
             ELSE FavouriteScan(st, fav, i + 1)

AddFavourite(st, fav) == FavouriteScan(st, fav, 1)

\* The favourites taken last to first.
RECURSIVE AddFavouritesReversed(_, _)
AddFavouritesReversed(st, favs) ==
    IF favs = <<>> THEN st
    ELSE AddFavourite(AddFavouritesReversed(st, Tail(favs)), Head(favs))

\* setup_menu_items, lines 89-90: the favourites in the order of the setting.
RECURSIVE AddFavourites(_, _)
AddFavourites(st, favs) ==
    IF favs = <<>> THEN st
    ELSE AddFavourites(AddFavourite(st, Head(favs)), Tail(favs))

\* The key under which _add_app_menus files a command.
AppGroupKey(cmd) ==
    IF GetAppName(cmd) = <<NoneName>> THEN OtherItems ELSE GetAppName(cmd)

\* _add_app_menus: the commands_by_app dict, each list in menu_items order.
RECURSIVE SelectGroup(_, _)
SelectGroup(items, key) ==
    IF items = <<>> THEN <<>>
    ELSE IF GetType(Head(items)) # "context_menu"
            /\ AppGroupKey(Head(items)) = key
         THEN <<Head(items)>> \o SelectGroup(Tail(items), key)
         ELSE SelectGroup(Tail(items), key)

CommandsByApp(items) ==
    LET keys == {AppGroupKey(items[i]) :
                    i \in {j \in 1..Len(items) :
                              GetType(items[j]) # "context_menu"}}
    IN  [k \in keys |-> SelectGroup(items, k)]

\* _add_app_menus: the context_menu commands go under the context menu.
RECURSIVE AddContextCommands(_, _, _)
AddContextCommands(tree, items, ctx_menu) ==
    IF items = <<>> THEN tree
    ELSE IF GetType(Head(items)) = "context_menu"
         THEN AddContextCommands(
                  AddCommandToMenu(tree, Head(items), ctx_menu),
                  Tail(items), ctx_menu)
         ELSE AddContextCommands(tree, Tail(items), ctx_menu)

\* for cmd in cmds: cmd.add_command_to_menu(menu)
RECURSIVE AddAll(_, _, _)
AddAll(tree, cmds, menu) ==
    IF cmds = <<>> THEN tree
    ELSE AddAll(AddCommandToMenu(tree, Head(cmds), menu), Tail(cmds), menu)

\* The loop body without the favourite test of the single-entry branch.
AddOneAppNoSkip(tree, app_name, cmds) ==
    IF Len(cmds) > 1
    THEN LET with_menu == AddSubMenu(tree, app_name, RootMenu)
         IN  AddAll(with_menu, SortByName(cmds), Len(with_menu))
    ELSE AddCommandToMenu(tree, cmds[1], RootMenu)

\* _add_commands_by_app_to_menu: the body of the loop for one app_name.
AddOneApp(tree, app_name, cmds) ==
    IF Len(cmds) > 1
    THEN LET with_menu == AddSubMenu(tree, app_name, RootMenu)
         IN  AddAll(with_menu, SortByName(cmds), Len(with_menu))
    ELSE IF ~cmds[1].favourite
         THEN AddCommandToMenu(tree, cmds[1], RootMenu)
         ELSE tree

\* _add_commands_by_app_to_menu: for app_name in sorted(keys).
RECURSIVE AddApps(_, _, _)
AddApps(tree, names, commands_by_app) ==
    IF names = <<>> THEN tree
    ELSE AddApps(AddOneApp(tree, Head(names), commands_by_app[Head(names)]),
                 Tail(names), commands_by_app)

AddCommandsByAppToMenu(tree, commands_by_app) ==
    AddApps(tree, SortedKeys(DOMAIN commands_by_app), commands_by_app)

\* MenuGenerator._add_app_menus
AddAppMenus(tree, items, ctx_menu) ==
    AddCommandsByAppToMenu(AddContextCommands(tree, items, ctx_menu),
                           CommandsByApp(items))

\* MenuGenerator.setup_menu_items: the new tree, _context_menu and the
\* AppCommand list as the call leaves them.
SetupMenuItems(tree, cmds, favs, ctx) ==
    LET ctxm == AddContextMenu(Clear(tree), ctx)
        first == AddDivider(ctxm.tree, RootMenu)
        faved == AddFavourites([tree |-> first, items |-> SortedItems(cmds)],
                               favs)
        second == AddDivider(faved.tree, RootMenu)
    IN  [tree |-> AddAppMenus(second, faved.items, ctxm.ctx_menu),
         ctx_menu |-> ctxm.ctx_menu,
         items |-> faved.items]

\* The disabled entry added below what the menu holds.
AddDisabledEntry(tree) ==
    AddMenuItem(tree, SgtkDisabledLabel, RootMenu, NoCallback)

\* MenuGenerator.disable_menu
DisableMenu(tree) ==
    AddMenuItem(Clear(tree), SgtkDisabledLabel, RootMenu, NoCallback)

(***************************************************************************)
(* The environment: what the engine holds when the menu is built.          *)
(***************************************************************************)
\* Command names the apps register, malformed ones included.
CommandNames ==
    { <<>>, <<"A">>, <<"A", "/", "B">>, <<"A", "/", "B", "/", "A">> }

\* The callback registered with a command.
CallbackOf(name) == <<"callback", name>>

\* The properties dicts of a command: optional "app", optional "type".
PropertiesChoices ==
    { <<>>,
      [app |-> EngineApps.tk_multi_a],
      [app |-> EngineApps.tk_multi_a, type |-> "context_menu"] }

\* The command dicts registered under one name.
CommandDetails(name) ==
    { [properties |-> p, callback |-> CallbackOf(name)] :
          p \in PropertiesChoices }

\* engine.commands: a dict from command name to command dict.
CommandDicts ==
    UNION { UNION { { c \in [keys -> UNION { CommandDetails(n) : n \in keys }] :
                        \A n \in keys : c[n] \in CommandDetails(n) } :
                    keys \in { k \in SUBSET CommandNames : Cardinality(k) = size } } :
            size \in 0..MaxCmds }

\* dict.items(): the items in the iteration order of the dict, which is
\* the order the apps registered the commands in; any order can occur.
RECURSIVE ItemOrders(_, _)
ItemOrders(dict, keys) ==
    IF keys = {} THEN { <<>> }
    ELSE UNION { { <<[name |-> k, details |-> dict[k]]>> \o rest :
                     rest \in ItemOrders(dict, keys \ {k}) } :
                 k \in keys }

Items(dict) == ItemOrders(dict, DOMAIN dict)

\* The entries the 'menu_favourites' setting may hold.
FavouriteChoices ==
    { [app_instance |-> "tk_multi_a", name |-> <<"A">>],
      [app_instance |-> "tk_multi_a", name |-> <<"A", "/", "B">>],
      [app_instance |-> "tk_multi_a", name |-> <<>>],
      [app_instance |-> "tk_multi_x", name |-> <<"A">>] }

FavouriteSettings == UNION { [1..k -> FavouriteChoices] : k \in 0..MaxFavs }

\* The contexts the engine may be in; name is str(ctx).
Contexts ==
    { [name |-> <<"A">>, filesystem_locations |-> <<>>],
      [name |-> <<"Asset B">>, filesystem_locations |-> <<"/proj/b">>] }

InitialContext == CHOOSE c \in Contexts : c.filesystem_locations # <<>>

(***************************************************************************)
(* The state machine.                                                      *)
(***************************************************************************)
\* MenuGenerator.__init__ in engine.pre_app_init: an empty QMenu in the menu
\* bar.  The engine start runs post_app_init next; context changes and
\* project events reach a started engine only.
MenuInit ==
    /\ commands \in CommandDicts
    /\ menu_favourites \in FavouriteSettings
    /\ context = InitialContext
    /\ shotgrid_menu = <<>>
    /\ context_menu = NoMenu
    /\ menu_items = <<>>
    /\ last_call = "__init__"

\* No texture export is under way.
GrouperIdle ==
    /\ os_name = "posix"
    /\ paths = <<>>
    /\ groups = <<>>
    /\ grouped = <<>>
    /\ previous_grouped = <<>>
    /\ calls = 0

\* No item is being published.
PublishIdle ==
    /\ parent_properties = <<>>
    /\ item_properties = <<>>
    /\ publish_state = "idle"
    /\ publish_log = <<>>

\* sp.project with no project open; file_path() is then None, the empty
\* text here.
NoProject == [is_open |-> FALSE, file_path |-> <<>>]

\* No project event has been handled.
NoEvent ==
    [ran |-> FALSE, before |-> InitialContext, change_context |-> <<>>,
     disable_menu |-> FALSE, tank_error |-> FALSE,
     resolved |-> InitialContext]

\* The engine runs without automatic context switch: no project event
\* reaches it.
EventIdle ==
    /\ engine_current = TRUE
    /\ automatic_context_switch = FALSE
    /\ callbacks_registered = FALSE
    /\ connections = 0
    /\ project = NoProject
    /\ event_result = NoEvent

\* get_project_path has not been called; the engine has no path mappings.
NoReturn == [called |-> FALSE, raised |-> "", is_none |-> FALSE, path |-> <<>>]

EnginePathIdle ==
    /\ windows_path_mappings = <<>>
    /\ returned_path = NoReturn

\* Substance Painter has not loaded the bootstrap script.
Unset == "<unset>"

NoEnvironment ==
    [SGTK_ENGINE |-> Unset, SGTK_CONTEXT |-> Unset, SGTK_FILE_TO_OPEN |-> Unset]

BootstrapIdle ==
    /\ environ = NoEnvironment
    /\ environ_before = NoEnvironment
    /\ sgtk_importable = TRUE
    /\ engine_started = FALSE
    /\ plugin_state = "not run"
    /\ plugin_trace = <<>>

\* copy_file has not been called.
NoCopy ==
    [called |-> FALSE, source_path |-> <<>>, target_directory |-> <<>>,
     overwrite |-> FALSE, raised |-> "", returned |-> <<>>,
     before |-> <<>>]

NoLaunch == [state |-> "not run", before |-> <<>>]

\* The launcher has not been asked to launch.
LauncherIdle ==
    /\ files = <<>>
    /\ dirs = {}
    /\ copy_result = NoCopy
    /\ launch_state = NoLaunch

StartupIdle ==
    /\ EnginePathIdle
    /\ BootstrapIdle
    /\ LauncherIdle

Init ==
    /\ MenuInit
    /\ GrouperIdle
    /\ PublishIdle
    /\ EventIdle
    /\ StartupIdle

\* MenuGenerator.setup_menu_items, run for the context ctx.
Rebuild(ctx) ==
    \E cmds \in Items(commands) :
        LET built == SetupMenuItems(shotgrid_menu, cmds, menu_favourites, ctx)
        IN  /\ shotgrid_menu' = built.tree
            /\ context_menu' = built.ctx_menu
            /\ menu_items' = built.items
            /\ last_call' = "setup_menu_items"

\* engine.post_app_init: called once, when all apps have initialized.
setup_menu_items ==
    /\ last_call = "__init__"
    /\ Rebuild(context)
    /\ UNCHANGED <<commands, menu_favourites, context>>
    /\ UNCHANGED outside_menu

\* engine.post_context_change(old_context, new_context)
post_context_change ==
    /\ last_call # "__init__"
    /\ \E new_context \in Contexts \ {context} :
          /\ context' = new_context
          /\ Rebuild(new_context)
    /\ UNCHANGED <<commands, menu_favourites>>
    /\ UNCHANGED outside_menu

\* MenuGenerator.disable_menu
disable_menu ==
    /\ last_call # "__init__"
    /\ shotgrid_menu' = DisableMenu(shotgrid_menu)
    /\ last_call' = "disable_menu"
    /\ UNCHANGED <<commands, menu_favourites, context, context_menu,
                   menu_items>>
    /\ UNCHANGED outside_menu

Next ==
    \/ setup_menu_items
    \/ post_context_change
    \/ disable_menu

Spec == Init /\ [][Next]_vars

(***************************************************************************)
(* Vocabulary of the properties.                                           *)
(***************************************************************************)
\* The last call on the menu generator was setup_menu_items.
Built == last_call = "setup_menu_items"

\* The AppCommand of a registered command, as built from engine.commands.
Registered(n) == AppCommand(n, commands[n])

IsContextCommand(n) == GetType(Registered(n)) = "context_menu"

\* The positions of the menu_favourites entries that match command n.
FavouriteEntries(n) ==
    { i \in 1..Len(menu_favourites) :
        /\ menu_favourites[i].name = n
        /\ "app" \in DOMAIN commands[n].properties
        /\ \E inst \in DOMAIN EngineApps :
              /\ EngineApps[inst].uid = commands[n].properties["app"].uid
              /\ menu_favourites[i].app_instance = inst }

IsFavourite(n) == FavouriteEntries(n) # {}

\* The non-context commands filed under the same key as n, n included.
AppGroup(n) ==
    { m \in DOMAIN commands :
        /\ ~IsContextCommand(m)
        /\ AppGroupKey(Registered(m)) = AppGroupKey(Registered(n)) }

\* The leaves connected to the callback of command n.
LeavesOf(n) ==
    { i \in 1..Len(shotgrid_menu) :
        /\ shotgrid_menu[i].kind = "action"
        /\ shotgrid_menu[i].callback = CallbackOf(n) }

\* The k-th ancestor of node i (0 is the ShotGrid menu itself).
RECURSIVE Ancestor(_, _)
Ancestor(i, k) ==
    IF k = 0 THEN i
    ELSE LET below == Ancestor(i, k - 1)
         IN  IF below <= 0 THEN NoMenu ELSE shotgrid_menu[below].parent

\* The entry of the ShotGrid menu that node i is, or lies below.
RECURSIVE TopEntry(_)
TopEntry(i) ==
    IF shotgrid_menu[i].parent = RootMenu THEN i
    ELSE TopEntry(shotgrid_menu[i].parent)

RootEntries == { i \in 1..Len(shotgrid_menu) : shotgrid_menu[i].parent = RootMenu }

RootSeparators == { i \in RootEntries : shotgrid_menu[i].kind = "separator" }

Least(S) == CHOOSE x \in S : \A y \in S : x <= y
Greatest(S) == CHOOSE x \in S : \A y \in S : y <= x

FirstSeparator == Least(RootSeparators)
SecondSeparator == Greatest(RootSeparators)

\* Lexicographic order by code point, stated by the first difference.
Before(s, t) ==
    \E k \in 1..Len(t) :
        /\ k <= Len(s) + 1
        /\ \A j \in 1..(k - 1) : s[j] = t[j]
        /\ k = Len(s) + 1 \/ Ord(s[k]) < Ord(t[k])

\* parts are the '/'-separated segments of name.
RECURSIVE Joined(_)
Joined(parts) ==
    IF Len(parts) = 1 THEN parts[1]
    ELSE parts[1] \o <<Slash>> \o Joined(Tail(parts))

IsSplitOf(parts, name) ==
    /\ Len(parts) >= 1
    /\ Joined(parts) = name
    /\ \A i \in 1..Len(parts) : \A j \in 1..Len(parts[i]) : parts[i][j] # Slash

\* Leaf i hangs below menu given by the submenus the segments of n name.
AttachedBelow(i, given, n) ==
    LET parts == Split(n)
        N == Len(parts)
    IN  /\ shotgrid_menu[i].kind = "action"
        /\ shotgrid_menu[i].text = parts[N]
        /\ \A k \in 1..(N - 1) :
              /\ Ancestor(i, k) >= 1
              /\ shotgrid_menu[Ancestor(i, k)].kind = "menu"
              /\ shotgrid_menu[Ancestor(i, k)].text = parts[N - k]
        /\ Ancestor(i, N) = given

\* No segment of the name is empty.
WellFormed(n) == \A k \in 1..Len(Split(n)) : Split(n)[k] # <<>>

\* The claims about favourites and groups are refuted on engines that
\* register neither a malformed name nor a context_menu command, so that
\* what refutes them is not the behaviour C5 and C9 are about.
PlainCommands ==
    \A n \in DOMAIN commands : WellFormed(n) /\ ~IsContextCommand(n)

(***************************************************************************)
(* C1: setup_menu_items builds exactly one AppCommand per entry of         *)
(* engine.commands (none dropped, duplicated or invented), each with the   *)
(* properties and callback of its entry, and the list is in ascending      *)
(* order of command name.                                                  *)
(***************************************************************************)
C1_OneCommandPerEntrySorted ==
    Built =>
        /\ Len(menu_items) = Cardinality(DOMAIN commands)
        /\ \A n \in DOMAIN commands :
              \E i \in 1..Len(menu_items) :
                  /\ menu_items[i].name = n
                  /\ menu_items[i].properties = commands[n].properties
                  /\ menu_items[i].callback = commands[n].callback
        /\ \A i \in 1..Len(menu_items) : menu_items[i].name \in DOMAIN commands
        /\ \A i \in 1..(Len(menu_items) - 1) :
              Before(menu_items[i].name, menu_items[i + 1].name)

\* A build over three commands, one of them promoted.
C1_Witness ==
    /\ Built
    /\ Len(menu_items) >= 3
    /\ \E i \in 1..Len(menu_items) : menu_items[i].favourite

C3_OneSubmenuPerLabel ==
    (Built /\ PlainCommands) =>
        \A i, j \in 1..Len(shotgrid_menu) :
            ( /\ i < j
              /\ shotgrid_menu[i].kind = "menu"
              /\ shotgrid_menu[j].kind = "menu"
              /\ shotgrid_menu[i].parent = shotgrid_menu[j].parent
              /\ shotgrid_menu[i].parent # RootMenu )
                => shotgrid_menu[i].text # shotgrid_menu[j].text

(***************************************************************************)
(* C4: every leaf of a command whose name has N '/'-segments carries the   *)
(* last segment as label and lies at depth N below the menu the command    *)
(* was added to (the ShotGrid menu, the context submenu or the submenu of  *)
(* its app group), through N-1 nested submenus labelled with the first     *)
(* N-1 segments in order; each add_command_to_menu call leaves one leaf.   *)
(***************************************************************************)
\* The submenus made for the app group of command n.
AppSubMenus(n) ==
    { m \in RootEntries :
        /\ m > SecondSeparator
        /\ shotgrid_menu[m].kind = "menu"
        /\ shotgrid_menu[m].text = AppGroupKey(Registered(n)) }

\* The menus add_command_to_menu is called with for command n.
GivenMenus(n) ==
    (IF IsFavourite(n) THEN {RootMenu} ELSE {})
    \cup (IF IsContextCommand(n) THEN {context_menu}
          ELSE IF Cardinality(AppGroup(n)) > 1 THEN AppSubMenus(n)
          ELSE {RootMenu})

\* The number of add_command_to_menu calls one build makes for command n.
CallsFor(n) ==
    Cardinality(FavouriteEntries(n))
    + (IF IsContextCommand(n) \/ Cardinality(AppGroup(n)) > 1 THEN 1
       ELSE IF IsFavourite(n) THEN 0 ELSE 1)

C4_LeafAtSegmentDepth ==
    Built =>
        \A n \in DOMAIN commands :
            /\ IsSplitOf(Split(n), n)
            /\ Cardinality(LeavesOf(n)) = CallsFor(n)
            /\ \A i \in LeavesOf(n) :
                  \E given \in GivenMenus(n) : AttachedBelow(i, given, n)

\* A command with three segments, attached through two nested submenus.
C4_Witness ==
    /\ Built
    /\ \E n \in DOMAIN commands :
          /\ Len(Split(n)) = 3
          /\ \E i \in LeavesOf(n) :
                /\ Ancestor(i, 3) = RootMenu
                /\ shotgrid_menu[Ancestor(i, 1)].kind = "menu"
                /\ shotgrid_menu[Ancestor(i, 2)].kind = "menu"

(***************************************************************************)
(* C5 as claimed: a command of type 'context_menu' has leaves under the    *)
(* context submenu only and is never marked as a favourite.  Stated on     *)
(* engines whose command names are all well formed.                        *)
(***************************************************************************)
C5_ContextCommandOnlyUnderContext ==
    (Built /\ \A m \in DOMAIN commands : WellFormed(m)) =>
        \A n \in DOMAIN commands :
            IsContextCommand(n) =>
                /\ \A i \in LeavesOf(n) : TopEntry(i) = context_menu
                /\ \A k \in 1..Len(menu_items) :
                      menu_items[k].name = n => ~menu_items[k].favourite

RECURSIVE LeafCallbacks(_)
LeafCallbacks(es) ==
    IF es = <<>> THEN <<>>
    ELSE IF shotgrid_menu[Head(es)].kind = "action"
         THEN <<shotgrid_menu[Head(es)].callback>> \o LeafCallbacks(Tail(es))
         ELSE LeafCallbacks(Tail(es))

\* The entries of the ShotGrid menu strictly between positions lo and hi.
RECURSIVE EntriesBetween(_, _, _)
EntriesBetween(es, lo, hi) ==
    IF es = <<>> THEN <<>>
    ELSE IF lo < Head(es) /\ Head(es) < hi
         THEN <<Head(es)>> \o EntriesBetween(Tail(es), lo, hi)
         ELSE EntriesBetween(Tail(es), lo, hi)

\* The menu_favourites entry at position k names a registered command.
EntryMatches(k) ==
    \E n \in DOMAIN commands : k \in FavouriteEntries(n)

\* The callbacks of the one-segment favourites, in the order of the setting.
RECURSIVE ExpectedFavouriteLeaves(_)
ExpectedFavouriteLeaves(k) ==
    IF k > Len(menu_favourites) THEN <<>>
    ELSE IF EntryMatches(k) /\ Len(Split(menu_favourites[k].name)) = 1
         THEN <<CallbackOf(menu_favourites[k].name)>>
              \o ExpectedFavouriteLeaves(k + 1)
         ELSE ExpectedFavouriteLeaves(k + 1)

Remaining == { n \in DOMAIN commands : ~IsContextCommand(n) /\ ~IsFavourite(n) }

RemainingGroup(n) ==
    { m \in Remaining : AppGroupKey(Registered(m)) = AppGroupKey(Registered(n)) }

GroupSubMenus(n) ==
    { sub \in AppSubMenus(n) :
        \A m \in AppGroup(n) :
            Cardinality({ i \in LeavesOf(m) : AttachedBelow(i, sub, m) }) = 1 }

\* The entries the grouping pass places directly in the ShotGrid menu for
\* the group of n: its submenu, or the leaf of a lone one-segment command.
GroupEntries(n) ==
    IF Cardinality(AppGroup(n)) > 1 THEN GroupSubMenus(n)
    ELSE { i \in LeavesOf(n) :
             /\ shotgrid_menu[i].parent = RootMenu
             /\ i > SecondSeparator }

RECURSIVE MatchingEntries(_)
MatchingEntries(k) ==
    IF k > Len(menu_favourites) THEN <<>>
    ELSE IF EntryMatches(k)
         THEN <<menu_favourites[k]>> \o MatchingEntries(k + 1)
         ELSE MatchingEntries(k + 1)

C8_UnknownFavouriteSkipped ==
    Built =>
        \E cmds \in Items(commands) :
            LET without == SetupMenuItems(<<>>, cmds, MatchingEntries(1), context)
            IN  /\ shotgrid_menu = without.tree
                /\ menu_items = without.items

\* A setting with an entry for an unknown app instance, one for a command of
\* another owner or name, and the named command registered.
C8_Witness ==
    /\ Built
    /\ Len(menu_favourites) = 2
    /\ ~EntryMatches(1)
    /\ EntryMatches(2)
    /\ \E n \in DOMAIN commands : n = menu_favourites[1].name

(***************************************************************************)
(* C9 as claimed: a malformed command name makes the build fail, so a      *)
(* completed build had none to attach, and no leaf or submenu of the menu  *)
(* has an empty label.                                                     *)
(***************************************************************************)
C9_MalformedNameRejected ==
    Built =>
        /\ \A n \in DOMAIN commands : WellFormed(n)
        /\ \A i \in 1..Len(shotgrid_menu) :
              shotgrid_menu[i].kind \in {"action", "menu"}
                  => shotgrid_menu[i].text # <<>>

(***************************************************************************)
(* C10: the menu after setup_menu_items is the one a build on an empty     *)
(* menu gives for the current engine.commands, menu_favourites and         *)
(* context, whatever calls came before and whatever the iteration order    *)
(* of engine.commands; the same holds of _context_menu and of the          *)
(* favourite marks.                                                        *)
(***************************************************************************)
C10_RebuildDeterministic ==
    Built =>
        \A cmds \in Items(commands) :
            LET fresh == SetupMenuItems(<<>>, cmds, menu_favourites, context)
            IN  /\ shotgrid_menu = fresh.tree
                /\ context_menu = fresh.ctx_menu
                /\ menu_items = fresh.items

\* A rebuild: the engine left its first context, so post_app_init had built
\* the menu before; several commands, a favourite among them.
C10_Witness ==
    /\ Built
    /\ context # InitialContext
    /\ Cardinality(DOMAIN commands) >= 3
    /\ \E n \in DOMAIN commands : IsFavourite(n)

(***************************************************************************)
(* The texture publish hook: _group_texture_sequences                      *)
(* (hooks/tk-multi-publish2/basic/publish_texture_set.py).                 *)
(***************************************************************************)
Backslash == "\\"
Dot == "."

\* \d and \w of the re module, for the characters in use.
Digits == {"0", "1", "2", "3", "4", "5", "6", "7", "8", "9"}
WordChars == Digits \cup {"a", "x", "A", "B", "U", "D", "I", "M", "_"}

IsDigit(c) == c \in Digits
IsWord(c) == c \in WordChars

\* The separators os.path.basename splits on: posixpath knows '/', ntpath
\* knows '/' and '\'.  (Drive letters are not among the paths in use.)
PathSeparators(os) == IF os = "nt" THEN {Slash, Backslash} ELSE {Slash}

\* str.rfind over the separators: the last position holding one, 0 if none.
RECURSIVE LastSeparator(_, _, _)
LastSeparator(path, os, i) ==
    IF i = 0 THEN 0
    ELSE IF path[i] \in PathSeparators(os) THEN i
    ELSE LastSeparator(path, os, i - 1)

\* The path itself, directories included.
WholePath(path, os) == path

\* os.path.basename
Basename(path, os) ==
    SubSeq(path, LastSeparator(path, os, Len(path)) + 1, Len(path))

\* \d+ is greedy: the first position at or after k that holds no digit.
RECURSIVE DigitRunEnd(_, _)
DigitRunEnd(f, k) ==
    IF k <= Len(f) /\ IsDigit(f[k]) THEN DigitRunEnd(f, k + 1) ELSE k

\* Anything at all after the dot.
AnyRunToEnd(f, k) == TRUE

\* \w+$ from position k: one or more word characters up to the end.
RECURSIVE WordRunToEnd(_, _)
WordRunToEnd(f, k) ==
    IF k > Len(f) THEN TRUE
    ELSE IsWord(f[k]) /\ WordRunToEnd(f, k + 1)

\* r"\.\d+(\.\w+)$" matches at position i of f.
UdimMatchAt(f, i) ==
    /\ f[i] = Dot
    /\ LET j == DigitRunEnd(f, i + 1)
       IN  /\ j > i + 1
           /\ j < Len(f)
           /\ f[j] = Dot
           /\ WordRunToEnd(f, j + 1)

\* re.sub scans left to right: the first position with a match, 0 if none.
RECURSIVE UdimSearch(_, _)
UdimSearch(f, i) ==
    IF i > Len(f) THEN 0
    ELSE IF UdimMatchAt(f, i) THEN i
    ELSE UdimSearch(f, i + 1)

\* The replacement r".<UDIM>\1" without its group.
UdimPlaceholder == <<".", "<", "U", "D", "I", "M", ">">>

\* re.sub(r"\.\d+(\.\w+)$", r".<UDIM>\1", filename)
UdimKey(filename) ==
    LET i == UdimSearch(filename, 1)
    IN  IF i = 0 THEN filename
        ELSE SubSeq(filename, 1, i - 1) \o UdimPlaceholder
             \o SubSeq(filename, DigitRunEnd(filename, i + 1), Len(filename))

\* groups.setdefault(key, []).append(path) with the members put in front.
SetDefaultPrepend(dict, key, path) ==
    IF \E i \in 1..Len(dict) : dict[i].key = key
    THEN [i \in 1..Len(dict) |->
             IF dict[i].key = key
             THEN [dict[i] EXCEPT !.members = <<path>> \o @]
             ELSE dict[i]]
    ELSE Append(dict, [key |-> key, members |-> <<path>>])

\* A setdefault whose list takes no path after its first.
SetDefaultOnly(dict, key, path) ==
    IF \E i \in 1..Len(dict) : dict[i].key = key
    THEN dict
    ELSE Append(dict, [key |-> key, members |-> <<path>>])

\* groups.setdefault(key, []).append(path): a dict keeps insertion order, a
\* new key goes last.
SetDefaultAppend(dict, key, path) ==
    IF \E i \in 1..Len(dict) : dict[i].key = key
    THEN [i \in 1..Len(dict) |->
             IF dict[i].key = key
             THEN [dict[i] EXCEPT !.members = Append(@, path)]
             ELSE dict[i]]
    ELSE Append(dict, [key |-> key, members |-> <<path>>])

\* The loop of _group_texture_sequences over paths.
RECURSIVE GroupLoop(_, _, _)
GroupLoop(dict, ps, os) ==
    IF ps = <<>> THEN dict
    ELSE LET filename == Basename(Head(ps), os)
             key == UdimKey(filename)
         IN  GroupLoop(SetDefaultAppend(dict, key, Head(ps)), Tail(ps), os)

\* A dict that is the one of the call before.
KeptGroups(before) == before

\* groups = {}
NewGroups(before) == <<>>

\* list(groups.values())
Values(dict) == [i \in 1..Len(dict) |-> dict[i].members]

\* The texture paths an export hands to the hook.
TexturePaths ==
    { <<"a", ".", "x">>,
      <<"a", ".", "1", ".", "x">>,
      <<"a", ".", "2", ".", "x">>,
      <<"a", ".", "1">>,
      <<"a", "1", ".", "x">>,
      <<"a", ".", "1", ".", "2", ".", "x">>,
      <<"a", ".", "2", ".", "2", ".", "x">>,
      <<"1", "/", "a", ".", "x">>,
      <<"2", "/", "a", ".", "x">>,
      <<"1", "\\", "a", ".", "1", ".", "x">>,
      <<"a", ".", "<", "U", "D", "I", "M", ">", ".", "x">> }

PathLists == UNION { [1..n -> TexturePaths] : n \in 0..MaxPaths }

OsNames == {"posix", "nt"}

\* The menu is not part of the grouping.
MenuIdle ==
    /\ commands = <<>>
    /\ menu_favourites = <<>>
    /\ context = InitialContext
    /\ shotgrid_menu = <<>>
    /\ context_menu = NoMenu
    /\ menu_items = <<>>
    /\ last_call = "__init__"

GrouperInit ==
    /\ os_name \in OsNames
    /\ paths \in PathLists
    /\ groups = <<>>
    /\ grouped = <<>>
    /\ previous_grouped = <<>>
    /\ calls = 0
    /\ MenuIdle
    /\ PublishIdle
    /\ EventIdle
    /\ StartupIdle

\* SubstancePainterTextureExportPlugin._group_texture_sequences(paths)
group_texture_sequences ==
    /\ calls < MaxCalls
    /\ LET dict == GroupLoop(NewGroups(groups), paths, os_name)
       IN  /\ groups' = dict
           /\ grouped' = Values(dict)
    /\ previous_grouped' = grouped
    /\ calls' = calls + 1
    /\ UNCHANGED <<os_name, paths>>
    /\ UNCHANGED <<menu_vars, publish_vars, event_vars, startup_vars>>

GrouperNext == group_texture_sequences

GrouperSpec == GrouperInit /\ [][GrouperNext]_vars

(***************************************************************************)
(* Vocabulary of the properties of the grouping.                           *)
(***************************************************************************)
\* A call of _group_texture_sequences has returned.
Grouped == calls > 0

\* s cut at every occurrence of sep.
RECURSIVE SplitOn(_, _)
SplitOn(s, sep) ==
    IF \A i \in 1..Len(s) : s[i] # sep THEN <<s>>
    ELSE LET i == CHOOSE k \in 1..Len(s) :
                      s[k] = sep /\ \A m \in 1..(k - 1) : s[m] # sep
         IN  <<SubSeq(s, 1, i - 1)>> \o SplitOn(SubSeq(s, i + 1, Len(s)), sep)

RECURSIVE JoinWith(_, _)
JoinWith(segs, sep) ==
    IF Len(segs) = 1 THEN segs[1]
    ELSE segs[1] \o <<sep>> \o JoinWith(Tail(segs), sep)

AllIn(s, chars) == \A i \in 1..Len(s) : s[i] \in chars

\* The filename ends with '.<digits>.<extension>'.
HasTileSuffix(f) ==
    LET segs == SplitOn(f, Dot)
        n == Len(segs)
    IN  /\ n >= 3
        /\ segs[n - 1] # <<>> /\ AllIn(segs[n - 1], Digits)
        /\ segs[n] # <<>> /\ AllIn(segs[n], WordChars)

\* The filename with the segment before the extension, if it is a tile
\* index, replaced by the placeholder and nothing else changed.
ExpectedKey(f) ==
    LET segs == SplitOn(f, Dot)
        n == Len(segs)
    IN  IF HasTileSuffix(f)
        THEN JoinWith(SubSeq(segs, 1, n - 2)
                          \o << <<"<", "U", "D", "I", "M", ">">>, segs[n] >>,
                      Dot)
        ELSE f

\* What follows the last separator of the path.
FinalComponent(p) ==
    LET after_slash == SplitOn(p, Slash)[Len(SplitOn(p, Slash))]
    IN  IF os_name = "nt"
        THEN SplitOn(after_slash, Backslash)[Len(SplitOn(after_slash, Backslash))]
        ELSE after_slash

\* The final component of the path at position a of the input.
FileName(a) == FinalComponent(paths[a])

Members(g) == { grouped[g][i] : i \in 1..Len(grouped[g]) }

\* The input paths at positions a and b were put in one group.
SameGroup(a, b) ==
    \E g \in 1..Len(grouped) : paths[a] \in Members(g) /\ paths[b] \in Members(g)

\* The keys of the input, each once, in the order of first appearance.
RECURSIVE FirstSeenKeys(_, _)
FirstSeenKeys(ps, seen) ==
    IF ps = <<>> THEN <<>>
    ELSE LET k == UdimKey(Basename(Head(ps), os_name))
         IN  IF k \in seen THEN FirstSeenKeys(Tail(ps), seen)
             ELSE <<k>> \o FirstSeenKeys(Tail(ps), seen \cup {k})

\* The input paths with derived key k, in input order.
WithKey(k) ==
    SelectSeq(paths, LAMBDA q : UdimKey(Basename(q, os_name)) = k)

\* The input paths whose filename, tile index replaced, is k.
WithExpectedKey(k) ==
    SelectSeq(paths, LAMBDA q : ExpectedKey(FinalComponent(q)) = k)

(***************************************************************************)
(* C11: _group_texture_sequences puts two paths in one group iff their     *)
(* derived keys (final path component, trailing '.<digits>.<extension>'    *)
(* rewritten to the placeholder) are equal; the groups come in the order   *)
(* their key first appears in the input and the paths of a group keep      *)
(* their input order.                                                      *)
(***************************************************************************)
C11_GroupsByKeyInOrder ==
    Grouped =>
        LET keys == FirstSeenKeys(paths, {})
        IN  /\ Len(grouped) = Len(keys)
            /\ \A g \in 1..Len(grouped) :
                  /\ groups[g].key = keys[g]
                  /\ grouped[g] = WithKey(keys[g])
            /\ \A a, b \in 1..Len(paths) :
                  SameGroup(a, b)
                      <=> UdimKey(FileName(a)) = UdimKey(FileName(b))

\* Two tiles of one map with a file of another map between them: the map
\* seen first comes first and holds its two tiles in input order.
C11_Witness ==
    /\ Grouped
    /\ Len(paths) = 3
    /\ Len(grouped) = 2
    /\ grouped[1] = <<paths[1], paths[3]>>
    /\ grouped[2] = <<paths[2]>>
    /\ paths[1] # paths[3]
    /\ HasTileSuffix(FileName(1))

(***************************************************************************)
(* C12 as claimed: every input path whose filename has no tile suffix is   *)
(* in a group holding exactly that one path, under a key equal to the      *)
(* filename.                                                               *)
(***************************************************************************)
C12_Original_PlainFileAlone ==
    Grouped =>
        \A a \in 1..Len(paths) :
            ~HasTileSuffix(FileName(a)) =>
                \E g \in 1..Len(grouped) :
                    /\ groups[g].key = FileName(a)
                    /\ grouped[g] = <<paths[a]>>

(***************************************************************************)
(* C12 as amended: an input path whose filename has no tile suffix is      *)
(* grouped under a key equal to the unchanged filename; its group holds,   *)
(* in input order, every input path whose filename is that same filename   *)
(* or is rewritten to it, so it is a group of one exactly when no other    *)
(* position of the input has such a path.                                  *)
(***************************************************************************)
C12_PlainFileKeyedByFilename ==
    Grouped =>
        \A a \in 1..Len(paths) :
            ~HasTileSuffix(FileName(a)) =>
                \E g \in 1..Len(grouped) :
                    /\ groups[g].key = FileName(a)
                    /\ grouped[g] = WithExpectedKey(FileName(a))
                    /\ Len(grouped[g]) = 1
                          <=> \A b \in 1..Len(paths) :
                                  ExpectedKey(FileName(b)) = FileName(a)
                                      => b = a

\* One plain filename under two directories, grouped together, next to a
\* plain file that is alone.
C12_Witness ==
    /\ Grouped
    /\ \E a, b, c \in 1..Len(paths) :
          /\ paths[a] # paths[b]
          /\ FileName(a) = FileName(b)
          /\ ~HasTileSuffix(FileName(a))
          /\ ~HasTileSuffix(FileName(c))
          /\ SameGroup(a, b)
          /\ \E g \in 1..Len(grouped) : grouped[g] = <<paths[c]>>

(***************************************************************************)
(* C13 as claimed: only the '.<digits>' segment before the extension is    *)
(* rewritten and every other part of the path, the directory included,     *)
(* tells groups apart: two paths that differ only in digits outside the   *)
(* tile index are in different groups.                                     *)
(***************************************************************************)
\* Position i of the path at position a lies in the tile index of its
\* filename.
InTileIndex(a, i) ==
    LET segs == SplitOn(FileName(a), Dot)
        n == Len(segs)
    IN  /\ HasTileSuffix(FileName(a))
        /\ i >= Len(paths[a]) - Len(segs[n]) - Len(segs[n - 1])
        /\ i < Len(paths[a]) - Len(segs[n])

\* The paths at positions a and b differ, and only in digits that are not
\* in the tile index.
DifferInOtherDigitsOnly(a, b) ==
    /\ Len(paths[a]) = Len(paths[b])
    /\ paths[a] # paths[b]
    /\ \A i \in 1..Len(paths[a]) :
          paths[a][i] # paths[b][i] =>
              /\ IsDigit(paths[a][i]) /\ IsDigit(paths[b][i])
              /\ ~InTileIndex(a, i) /\ ~InTileIndex(b, i)

C13_Original_OtherDigitsSeparate ==
    Grouped =>
        \A a, b \in 1..Len(paths) :
            DifferInOtherDigitsOnly(a, b) => ~SameGroup(a, b)

(***************************************************************************)
(* C13 as amended: the key of a path is its filename with only the         *)
(* '.<digits>' segment directly before the extension replaced; digits in   *)
(* the base name or in an earlier segment stay, so filenames differing in  *)
(* them are in different groups.  The directory takes no part in the key:  *)
(* two paths are in one group iff their filenames are equal once the tile  *)
(* index is replaced.                                                      *)
(***************************************************************************)
C13_OnlyTileSegmentRewritten ==
    Grouped =>
        /\ \A a \in 1..Len(paths) :
              \E g \in 1..Len(grouped) :
                  /\ paths[a] \in Members(g)
                  /\ groups[g].key = ExpectedKey(FileName(a))
        /\ \A a, b \in 1..Len(paths) :
              SameGroup(a, b)
                  <=> ExpectedKey(FileName(a)) = ExpectedKey(FileName(b))

\* Two tiles whose filenames differ in an earlier numeric segment, in
\* different groups, and a file whose only digits are in the base name.
C13_Witness ==
    /\ Grouped
    /\ \E a, b, c \in 1..Len(paths) :
          /\ Len(SplitOn(FileName(a), Dot)) = 4
          /\ Len(SplitOn(FileName(b), Dot)) = 4
          /\ HasTileSuffix(FileName(a))
          /\ HasTileSuffix(FileName(b))
          /\ ~SameGroup(a, b)
          /\ ~HasTileSuffix(FileName(c))
          /\ \E i \in 1..Len(FileName(c)) : IsDigit(FileName(c)[i])

None == -1
NoText == <<>>
NotRaised == "not raised"
Underscore == "_"

TEXTURE_PUBLISH_TYPE == "Texture"
TEXTURE_SET_PUBLISH_TYPE == "Texture Set"

DigitValue(c) ==
    CASE c = "0" -> 0 [] c = "1" -> 1 [] c = "2" -> 2 [] c = "3" -> 3
      [] c = "4" -> 4 [] c = "5" -> 5 [] c = "6" -> 6 [] c = "7" -> 7
      [] c = "8" -> 8 [] c = "9" -> 9

\* int(text) of a run of digits.
RECURSIVE IntOf(_)
IntOf(text) ==
    IF text = <<>> THEN 0
    ELSE 10 * IntOf(SubSeq(text, 1, Len(text) - 1))
         + DigitValue(text[Len(text)])

\* re.match(TEXTURE_FILENAME_REGEX, filename): whether it matched, and the
\* named groups.
\* No part before the first '\.' of the pattern can hold a dot, so the
\* text up to the first dot is '<set>_<texture_map>_<colorspace>', and what
\* follows is '.<extension>' or '.<four digits>.<extension>'.
FilenameMatch(filename) ==
    LET segs == SplitOn(filename, Dot)
        head == SplitOn(segs[1], Underscore)
        n == Len(head)
        named == /\ n >= 3
                 /\ head[n] # <<>>
                 /\ head[n - 1] # <<>>
                 /\ JoinWith(SubSeq(head, 1, n - 2), Underscore) # <<>>
        ext == segs[Len(segs)]
        with_udim == /\ Len(segs) = 3
                     /\ Len(segs[2]) = 4
                     /\ AllIn(segs[2], Digits)
    IN  IF /\ named
           /\ Len(segs) = 2 \/ with_udim
           /\ ext # <<>>
           /\ AllIn(ext, WordChars)
        THEN [matched |-> TRUE,
              texture_map |-> head[n - 1],
              colorspace |-> head[n],
              udim |-> IF with_udim THEN segs[2] ELSE NoText,
              extension |-> ext]
        ELSE [matched |-> FALSE,
              texture_map |-> NoText,
              colorspace |-> NoText,
              udim |-> NoText,
              extension |-> NoText]

\* publish, lines 384-387: the template setting of a group.
TemplateSetting(grouped_texture_path) ==
    IF Len(grouped_texture_path) = 1 THEN "Publish Template"
    ELSE "Publish UDIM Template"

\* The id ShotGrid gives the next registered publish.
NewPublishId(log) ==
    100 + Cardinality({ i \in 1..Len(log) : log[i].op = "register" })

\* A registration that keeps the newest id first.
RegisterTextureIdFirst(st, g, template, fields, deps) ==
    LET id == NewPublishId(st.log)
    IN  [st EXCEPT
            !.log = Append(@, [op |-> "register",
                               group |-> g,
                               published_file_type |-> TEXTURE_PUBLISH_TYPE,
                               template |-> template,
                               fields |-> fields,
                               version_number |-> fields.version,
                               dependency_ids |-> deps,
                               id |-> id]),
            !.ids = <<id>> \o @]

\* publish, lines 422-461: the publish of group g is registered and its id
\* kept.
RegisterTexture(st, g, template, fields, deps) ==
    LET id == NewPublishId(st.log)
    IN  [st EXCEPT
            !.log = Append(@, [op |-> "register",
                               group |-> g,
                               published_file_type |-> TEXTURE_PUBLISH_TYPE,
                               template |-> template,
                               fields |-> fields,
                               version_number |-> fields.version,
                               dependency_ids |-> deps,
                               id |-> id]),
            !.ids = Append(@, id)]

\* The record of one copy_file call and of how it ended.
CopyCall(g, texture_path, template, fields, outcome) ==
    [op |-> "copy", group |-> g, source |-> texture_path,
     template |-> template, fields |-> fields, outcome |-> outcome]

\* The fields of one file, lines 401-408.
FileFields(fields, match) ==
    LET named == [fields EXCEPT !.texture_map = match.texture_map,
                                !.colorspace = match.colorspace,
                                !.extension = match.extension]
    IN  IF match.udim # NoText
        THEN [named EXCEPT !.UDIM = IntOf(match.udim)]
        ELSE named

\* A copy loop that goes on to the next file when copy_file raises.
RECURSIVE CopyFilesRegardless(_, _, _, _, _, _, _)
CopyFilesRegardless(st, g, members, i, template, fields, failing) ==
    IF i > Len(members) THEN [st |-> st, fields |-> fields]
    ELSE LET texture_path == members[i]
             match == FilenameMatch(Basename(texture_path, os_name))
             filled == FileFields(fields, match)
             outcome == IF st.copies + 1 = failing THEN "raised" ELSE "done"
         IN  IF ~match.matched
             THEN [st |-> [st EXCEPT !.raised = "AttributeError"],
                   fields |-> fields]
             ELSE CopyFilesRegardless(
                      [st EXCEPT
                          !.copies = @ + 1,
                          !.log = Append(@, CopyCall(g, texture_path, template,
                                                     filled, outcome))],
                      g, members, i + 1, template, filled, failing)

\* publish, lines 400-420: the files of group g from position i on.  st is
\* [log, ids, copies, raised]; failing is the copy_file call that raises, 0
\* for none.
RECURSIVE CopyFiles(_, _, _, _, _, _, _)
CopyFiles(st, g, members, i, template, fields, failing) ==
    IF i > Len(members) THEN [st |-> st, fields |-> fields]
    ELSE LET texture_path == members[i]
             match == FilenameMatch(Basename(texture_path, os_name))
             filled == FileFields(fields, match)
         IN  IF ~match.matched
             THEN [st |-> [st EXCEPT !.raised = "AttributeError"],
                   fields |-> fields]
             ELSE IF st.copies + 1 = failing
             THEN [st |-> [st EXCEPT
                              !.raised = "Exception",
                              !.log = Append(@, CopyCall(g, texture_path,
                                                         template, filled,
                                                         "raised"))],
                   fields |-> filled]
             ELSE CopyFiles(
                      [st EXCEPT
                          !.copies = @ + 1,
                          !.log = Append(@, CopyCall(g, texture_path, template,
                                                     filled, "done"))],
                      g, members, i + 1, template, filled, failing)

\* publish, lines 381-461: the groups from g on.
RECURSIVE PublishGroups(_, _, _, _, _, _)
PublishGroups(st, gs, g, version_number, deps, failing) ==
    IF g > Len(gs) THEN st
    ELSE LET template == TemplateSetting(gs[g])
             fields == [version |-> version_number,
                        texture_map |-> NoText,
                        colorspace |-> NoText,
                        extension |-> NoText,
                        UDIM |-> None]
             copied == CopyFiles(st, g, gs[g], 1, template, fields, failing)
         IN  IF copied.st.raised # NotRaised THEN copied.st
             ELSE PublishGroups(
                      RegisterTexture(copied.st, g, template,
                                      [copied.fields EXCEPT !.UDIM = None],
                                      deps),
                      gs, g + 1, version_number, deps, failing)

\* The sg_publish_data the publish of the project file left on the parent.
ParentProperties ==
    { <<>>,
      [sg_publish_data |-> [id |-> 7, version_number |-> 3]] }

\* The textures an export of the 'shotgrid' preset writes, a single tile
\* and a two-digit tile index among them.
ExportedTextures ==
    { <<"a", "_", "A", "_", "a", ".", "1", "0", "0", "1", ".", "x">>,
      <<"a", "_", "A", "_", "a", ".", "1", "0", "0", "2", ".", "x">>,
      <<"a", "_", "B", "_", "a", ".", "1", "0", "0", "1", ".", "x">>,
      <<"a", "_", "B", "_", "a", ".", "x">>,
      <<"1", "/", "a", "_", "B", "_", "a", ".", "x">>,
      <<"a", "_", "A", "_", "a", ".", "1", "0", ".", "x">> }

ExportLists == UNION { [1..n -> ExportedTextures] : n \in 0..MaxPaths }

PublishInit ==
    /\ os_name \in OsNames
    /\ paths \in ExportLists
    /\ groups = <<>>
    /\ grouped = <<>>
    /\ previous_grouped = <<>>
    /\ calls = 0
    /\ parent_properties \in ParentProperties
    /\ item_properties = <<>>
    /\ publish_state = "validated"
    /\ publish_log = <<>>
    /\ MenuIdle
    /\ EventIdle
    /\ StartupIdle

\* SubstancePainterTextureExportPlugin.publish; paths is the list the
\* export returned, failing the copy_file call that raises (0: none does).
publish ==
    /\ publish_state = "validated"
    /\ \E failing \in 0..Len(paths) :
          LET dict == GroupLoop(NewGroups(groups), paths, os_name)
              grouped_texture_paths == Values(dict)
              version_number ==
                  IF "sg_publish_data" \in DOMAIN parent_properties
                  THEN parent_properties.sg_publish_data.version_number
                  ELSE None
              deps == IF "sg_publish_data" \in DOMAIN parent_properties
                      THEN <<parent_properties.sg_publish_data.id>>
                      ELSE <<>>
              done == PublishGroups([log |-> <<>>, ids |-> <<>>,
                                     copies |-> 0, raised |-> NotRaised],
                                    grouped_texture_paths, 1, version_number,
                                    deps, failing)
          IN  /\ groups' = dict
              /\ grouped' = grouped_texture_paths
              /\ previous_grouped' = grouped
              /\ calls' = calls + 1
              /\ publish_log' = publish_log \o done.log
              /\ IF done.raised # NotRaised
                 THEN /\ publish_state' = "raised"
                      /\ item_properties' =
                             [version_number |-> version_number]
                 ELSE /\ publish_state' = "published"
                      /\ item_properties' =
                             [version_number |-> version_number,
                              textures_publish_ids |-> done.ids]
    /\ UNCHANGED <<os_name, paths, parent_properties>>
    /\ UNCHANGED <<menu_vars, event_vars, startup_vars>>

\* SubstancePainterTextureExportPlugin.finalize: the publisher runs it once
\* the publish pass has completed.
finalize ==
    /\ publish_state = "published"
    /\ publish_log' =
           Append(publish_log,
                  [op |-> "register",
                   group |-> 0,
                   published_file_type |-> TEXTURE_SET_PUBLISH_TYPE,
                   template |-> "Publish Folder Template",
                   fields |-> [version |-> item_properties.version_number],
                   version_number |-> item_properties.version_number,
                   dependency_ids |-> item_properties.textures_publish_ids,
                   id |-> NewPublishId(publish_log)])
    /\ publish_state' = "finalized"
    /\ UNCHANGED <<parent_properties, item_properties>>
    /\ UNCHANGED <<menu_vars, grouper_vars, event_vars, startup_vars>>

PublishNext ==
    \/ publish
    \/ finalize

PublishSpec == PublishInit /\ [][PublishNext]_vars

(***************************************************************************)
(* Vocabulary of the properties of the publish.                            *)
(***************************************************************************)
Copies == { i \in 1..Len(publish_log) : publish_log[i].op = "copy" }
Registers == { i \in 1..Len(publish_log) : publish_log[i].op = "register" }
TextureRegisters ==
    { i \in Registers :
          publish_log[i].published_file_type = TEXTURE_PUBLISH_TYPE }
TextureSetRegisters ==
    { i \in Registers :
          publish_log[i].published_file_type = TEXTURE_SET_PUBLISH_TYPE }

\* The file name of the path ends in '.<four digits>.<extension>'.
CarriesTileIndex(path) ==
    LET segs == SplitOn(FinalComponent(path), Dot)
    IN  /\ Len(segs) >= 3
        /\ Len(segs[Len(segs) - 1]) = 4
        /\ AllIn(segs[Len(segs) - 1], Digits)

\* C15: every file that publish copies goes through 'Publish UDIM
\* Template' exactly when it carries a UDIM tile index, and through
\* 'Publish Template' exactly when it carries none, a single exported tile
\* included.
C15_TemplateByTileIndex ==
    \A i \in Copies :
        /\ publish_log[i].template \in
               {"Publish Template", "Publish UDIM Template"}
        /\ publish_log[i].template = "Publish UDIM Template"
               <=> CarriesTileIndex(publish_log[i].source)

\* The positions of the log where a publish was registered, in log order.
RECURSIVE InOrder(_)
InOrder(positions) ==
    IF positions = {} THEN <<>>
    ELSE LET first == CHOOSE i \in positions : \A j \in positions : i <= j
         IN  <<first>> \o InOrder(positions \ {first})

TextureRegistersInOrder == InOrder(TextureRegisters)

PublishSucceeded == publish_state \in {"published", "finalized"}

\* C16: a successful publish has registered exactly one 'Texture' publish
\* per group of the grouping, in group order, and has stored their ids in
\* that order in item.properties['textures_publish_ids']; finalize, run
\* afterwards, registers exactly one 'Texture Set' publish, after all the
\* textures, whose dependency_ids are that id list and whose version number
\* is the one of the textures.
C16_OneTexturePerGroupThenSet ==
    PublishSucceeded =>
        LET regs == TextureRegistersInOrder
        IN  /\ Len(regs) = Len(grouped)
            /\ \A k \in 1..Len(regs) : publish_log[regs[k]].group = k
            /\ \A k \in 1..Len(regs) :
                   \A i \in Copies :
                       publish_log[i].group = k =>
                           publish_log[i].source \in Members(k)
            /\ item_properties.textures_publish_ids =
                   [k \in 1..Len(regs) |-> publish_log[regs[k]].id]
            /\ \A k, l \in 1..Len(regs) :
                   k # l => publish_log[regs[k]].id # publish_log[regs[l]].id
            /\ IF publish_state = "published"
               THEN TextureSetRegisters = {}
               ELSE \E t \in TextureSetRegisters :
                        /\ TextureSetRegisters = {t}
                        /\ \A k \in 1..Len(regs) : regs[k] < t
                        /\ publish_log[t].dependency_ids =
                               item_properties.textures_publish_ids
                        /\ publish_log[t].version_number =
                               item_properties.version_number
                        /\ \A k \in 1..Len(regs) :
                               publish_log[regs[k]].version_number =
                                   publish_log[t].version_number

\* A finalized publish of two groups, the first of them a UDIM sequence,
\* below a published project file.
C16_Witness ==
    /\ publish_state = "finalized"
    /\ Len(grouped) = 2
    /\ Len(grouped[1]) = 2
    /\ Len(item_properties.textures_publish_ids) = 2
    /\ item_properties.version_number = 3
    /\ TextureSetRegisters # {}

FailedCopies == { i \in Copies : publish_log[i].outcome = "raised" }

\* The sources of the copies of group g that were made before position r
\* of the log, in log order.
CopiedBefore(g, r) ==
    LET made == InOrder({ i \in Copies : /\ i < r
                                         /\ publish_log[i].group = g
                                         /\ publish_log[i].outcome = "done" })
    IN  [k \in 1..Len(made) |-> publish_log[made[k]].source]

\* C17: when the publish of a group is registered, every file of the group
\* has been copied, in the order of the group; and when a copy_file call
\* fails, publish raises, nothing is copied or registered after it (so no
\* publish for that group or a later one), 'textures_publish_ids' is not
\* written, and the publishes registered for the earlier groups stay.
C17_CopyBeforeRegisterAndStopOnFailure ==
    /\ \A r \in TextureRegisters :
           CopiedBefore(publish_log[r].group, r) = grouped[publish_log[r].group]
    /\ \A f \in FailedCopies :
           /\ publish_state = "raised"
           /\ f = Len(publish_log)
           /\ \A r \in Registers : publish_log[r].group < publish_log[f].group
           /\ \A g \in 1..(publish_log[f].group - 1) :
                  \E r \in TextureRegisters : publish_log[r].group = g
           /\ "textures_publish_ids" \notin DOMAIN item_properties
           /\ TextureSetRegisters = {}

\* The second copy of the second group failed after the first group, a
\* UDIM sequence, had been copied and registered.
C17_Witness ==
    /\ publish_state = "raised"
    /\ Len(grouped) = 2
    /\ \E f \in FailedCopies :
           /\ publish_log[f].group = 2
           /\ \E i \in Copies : /\ publish_log[i].group = 2
                                /\ publish_log[i].outcome = "done"
    /\ \E r \in TextureRegisters : publish_log[r].group = 1

(***************************************************************************)
(* CallbackHandler: the project events of Substance Painter.               *)
(*                                                                         *)
(* The dispatcher and the Toolkit core are not part of the repository.     *)
(* What sgtk_from_path and context_from_path answer for a path is an input *)
(* of the event.  Whether the dispatcher keeps a second connection of a    *)
(* callback it already holds, and whether disconnect removes one           *)
(* connection or all, is left open: either can happen.                     *)
(***************************************************************************)
MaxConnections == 2

\* str.lower() of one character, for the characters in use.
LowerChar(c) ==
    CASE c = "A" -> "a" [] c = "B" -> "b" [] c = "D" -> "d" [] c = "I" -> "i"
      [] c = "M" -> "m" [] c = "P" -> "p" [] c = "S" -> "s" [] c = "T" -> "t"
      [] c = "U" -> "u" [] c = "Z" -> "z" [] OTHER -> c

\* The text as it is written.
AsWritten(text) == text

\* str.lower()
Lower(text) == [i \in 1..Len(text) |-> LowerChar(text[i])]

\* str.replace(old, new) for one-character texts.
Replace(text, old, new) ==
    [i \in 1..Len(text) |-> IF text[i] = old THEN new ELSE text[i]]

\* os.path.sep
PathSep(os) == IF os = "nt" THEN Backslash ELSE Slash

\* str.rfind('.'): the last position holding a dot, 0 if none.
RECURSIVE LastDot(_, _)
LastDot(path, i) ==
    IF i = 0 THEN 0
    ELSE IF path[i] = Dot THEN i
    ELSE LastDot(path, i - 1)

\* os.path.splitext(path)[1]: from the last dot of the final component on,
\* unless only dots come before it there.
Extension(path, os) ==
    LET sepIndex == LastSeparator(path, os, Len(path))
        dotIndex == LastDot(path, Len(path))
    IN  IF /\ dotIndex > sepIndex
           /\ \E k \in (sepIndex + 1)..(dotIndex - 1) : path[k] # Dot
        THEN SubSeq(path, dotIndex, Len(path))
        ELSE <<>>

SptExtension == <<".", "s", "p", "t">>

\* CallbackHandler.on_project_event, up to what it asks of the engine:
\* the contexts it hands to engine.change_context, in order, and whether it
\* calls menu_generator.disable_menu.
OnProjectEvent(engine, proj, os, resolution, current_context) ==
    LET nothing == [change_context |-> <<>>, disable_menu |-> FALSE]
        current_project_path == Replace(proj.file_path, Slash, PathSep(os))
    IN  IF ~engine THEN nothing
        ELSE IF ~proj.is_open THEN nothing
        ELSE IF proj.file_path = <<>> THEN nothing
        ELSE IF Lower(Extension(current_project_path, os)) = SptExtension
        THEN nothing
        ELSE IF resolution.tank_error
        THEN [change_context |-> <<>>, disable_menu |-> TRUE]
        ELSE IF resolution.context # current_context
        THEN [change_context |-> <<resolution.context>>,
              disable_menu |-> FALSE]
        ELSE nothing

\* What sp.project.file_path() returns for an open project: None for an
\* unsaved one, else a path written with '/'.
ProjectPaths ==
    { <<>>,
      <<"/", "b", "/", "a", ".", "s", "p", "p">>,
      <<"/", "b", "/", "a", ".", "s", "p", "t">>,
      <<"/", "b", "/", "a", ".", "S", "P", "T">>,
      <<"/", "b", ".", "s", "p", "t", "/", "a">>,
      <<"/", "b", "/", ".", "s", "p", "t">> }

Projects ==
    {NoProject} \cup { [is_open |-> TRUE, file_path |-> p] : p \in ProjectPaths }

\* What the Toolkit core answers for a path: sgtk_from_path raises
\* TankError, or context_from_path gives a context.
Resolutions == [tank_error : BOOLEAN, context : Contexts]

\* engine.commands of the engines the events are sent to.
EventCommandDicts == { c \in CommandDicts : DOMAIN c \subseteq {<<"A">>} }

\* CallbackHandler.__init__ in engine.pre_app_init, or a handler built
\* without an engine when none is current.
EventInit ==
    /\ commands \in EventCommandDicts
    /\ menu_favourites = <<>>
    /\ context = InitialContext
    /\ shotgrid_menu = <<>>
    /\ context_menu = NoMenu
    /\ menu_items = <<>>
    /\ last_call = "__init__"
    /\ engine_current \in BOOLEAN
    /\ automatic_context_switch \in BOOLEAN
    /\ callbacks_registered = FALSE
    /\ connections = 0
    /\ project = NoProject
    /\ event_result = NoEvent
    /\ os_name \in OsNames
    /\ paths = <<>>
    /\ groups = <<>>
    /\ grouped = <<>>
    /\ previous_grouped = <<>>
    /\ calls = 0
    /\ PublishIdle
    /\ StartupIdle

\* DISPATCHER.connect_strong(ev, on_project_event), the same for each of
\* the four project events.
ConnectStrong(n) ==
    IF n = 0 THEN {1}
    ELSE IF n < MaxConnections THEN {n, n + 1}
    ELSE {n}

\* DISPATCHER.disconnect(ev, on_project_event), the same for each of the
\* four project events.
Disconnect(n) == IF n = 0 THEN {0} ELSE {n - 1, 0}

\* CallbackHandler.register_callbacks; self.engine is the current engine.
register_callbacks ==
    /\ IF ~engine_current \/ automatic_context_switch
       THEN /\ connections' \in ConnectStrong(connections)
            /\ callbacks_registered' = TRUE
       ELSE UNCHANGED <<connections, callbacks_registered>>
    /\ UNCHANGED <<engine_current, automatic_context_switch, project,
                   event_result>>
    /\ UNCHANGED <<menu_vars, grouper_vars, publish_vars, startup_vars>>

\* CallbackHandler.unregister_callbacks
unregister_callbacks ==
    /\ IF callbacks_registered
       THEN /\ connections' \in Disconnect(connections)
            /\ callbacks_registered' = FALSE
       ELSE UNCHANGED <<connections, callbacks_registered>>
    /\ UNCHANGED <<engine_current, automatic_context_switch, project,
                   event_result>>
    /\ UNCHANGED <<menu_vars, grouper_vars, publish_vars, startup_vars>>

\* The host opens, saves, creates or closes a project and the dispatcher
\* calls on_project_event through one of its connections.  engine.
\* change_context sets the context and runs post_context_change, which
\* rebuilds the menu.  A started engine has run post_app_init.
on_project_event ==
    /\ connections > 0
    /\ engine_current => last_call # "__init__"
    /\ \E proj \in Projects, resolution \in Resolutions :
          LET did == OnProjectEvent(engine_current, proj, os_name, resolution,
                                    context)
          IN  /\ project' = proj
              /\ event_result' =
                     [ran |-> TRUE,
                      before |-> context,
                      change_context |-> did.change_context,
                      disable_menu |-> did.disable_menu,
                      tank_error |-> resolution.tank_error,
                      resolved |-> resolution.context]
              /\ IF did.change_context # <<>>
                 THEN /\ context' = did.change_context[1]
                      /\ Rebuild(did.change_context[1])
                      /\ UNCHANGED <<commands, menu_favourites>>
                 ELSE IF did.disable_menu
                 THEN /\ shotgrid_menu' = DisableMenu(shotgrid_menu)
                      /\ last_call' = "disable_menu"
                      /\ UNCHANGED <<commands, menu_favourites, context,
                                     context_menu, menu_items>>
                 ELSE UNCHANGED menu_vars
    /\ UNCHANGED <<engine_current, automatic_context_switch,
                   callbacks_registered, connections>>
    /\ UNCHANGED <<grouper_vars, publish_vars, startup_vars>>

EventNext ==
    \/ setup_menu_items
    \/ register_callbacks
    \/ unregister_callbacks
    \/ on_project_event

EventSpec == EventInit /\ [][EventNext]_vars

(***************************************************************************)
(* Vocabulary of the properties of the project events.                     *)
(***************************************************************************)
\* The file name of the path, written with '/', ends in '.spt' in any
\* letter case, with more than dots before it.
HasSptExtension(p) ==
    LET name == SplitOn(p, Slash)[Len(SplitOn(p, Slash))]
        segs == SplitOn(name, Dot)
        last == segs[Len(segs)]
    IN  /\ Len(segs) >= 2
        /\ Len(last) = 3
        /\ last[1] \in {"s", "S"}
        /\ last[2] \in {"p", "P"}
        /\ last[3] \in {"t", "T"}
        /\ \E k \in 1..(Len(segs) - 1) : segs[k] # <<>>

\* The last event got as far as asking the Toolkit core about the path.
PathLookedUp ==
    /\ event_result.ran
    /\ engine_current
    /\ project.is_open
    /\ project.file_path # <<>>
    /\ ~HasSptExtension(project.file_path)

\* C18: an on_project_event call hands at most one context to
\* engine.change_context, and it hands one exactly when an engine is
\* current, a project is open, its path is non-empty and has no '.spt'
\* extension in any letter case, the Toolkit core resolves the path, and
\* the resolved context differs from the engine's; the engine is then in
\* the resolved context, and in every other case in the context it was in.
C18_ContextChangeOnlyWhenResolvedDiffers ==
    event_result.ran =>
        LET should == /\ PathLookedUp
                      /\ ~event_result.tank_error
                      /\ event_result.resolved # event_result.before
        IN  /\ Len(event_result.change_context) <= 1
            /\ Len(event_result.change_context) = 1 <=> should
            /\ should =>
                   /\ event_result.change_context = <<event_result.resolved>>
                   /\ context = event_result.resolved
            /\ ~should => context = event_result.before

\* On Windows a project below a directory named 'b.spt' made the engine
\* change its context.
C18_Witness ==
    /\ event_result.ran
    /\ os_name = "nt"
    /\ project.file_path = <<"/", "b", ".", "s", "p", "t", "/", "a">>
    /\ Len(event_result.change_context) = 1
    /\ context # event_result.before

\* C19: when sgtk_from_path raises TankError for the path of the open
\* project, on_project_event leaves in the ShotGrid menu the single entry
\* 'Sgtk is disabled.', asks for no context change and leaves the engine
\* in its context.
C19_TankErrorDisablesMenu ==
    PathLookedUp /\ event_result.tank_error =>
        /\ shotgrid_menu = <<[parent |-> RootMenu, kind |-> "action",
                              text |-> SgtkDisabledLabel,
                              callback |-> NoCallback]>>
        /\ event_result.disable_menu
        /\ event_result.change_context = <<>>
        /\ context = event_result.before

\* The path of the project was not of a ShotGrid project while the menu
\* held the entries of a registered command.
C19_Witness ==
    /\ PathLookedUp
    /\ event_result.tank_error
    /\ menu_items # <<>>
    /\ Len(shotgrid_menu) = 1

\* Whatever the dispatcher does with repeated connections, a handler whose
\* callbacks_registered is true is connected; the converse depends on the
\* dispatcher.
RegisteredImpliesConnected == callbacks_registered => connections > 0

\* The handler is connected although callbacks_registered is false.
ConnectedUnregistered == ~callbacks_registered /\ connections > 0

(***************************************************************************)
(* SubstancePainterEngine.get_project_path and the path conversion of      *)
(* utils.py.                                                               *)
(*                                                                         *)
(* platform.system() is 'Windows' exactly when os.name is 'nt'.  The paths *)
(* have no '.' or '..' component and no doubled or trailing separator, so  *)
(* ntpath.normpath only turns '/' into '\'.                                *)
(***************************************************************************)
Colon == ":"

\* str.startswith(prefix)
StartsWith(text, prefix) ==
    /\ Len(prefix) <= Len(text)
    /\ SubSeq(text, 1, Len(prefix)) = prefix

\* str.find(old) + 1: the first position where old occurs, 0 if none.
RECURSIVE FindFrom(_, _, _)
FindFrom(text, old, i) ==
    IF i + Len(old) - 1 > Len(text) THEN 0
    ELSE IF SubSeq(text, i, i + Len(old) - 1) = old THEN i
    ELSE FindFrom(text, old, i + 1)

\* str.replace(old, new, 1) for a non-empty old.
ReplaceFirst(text, old, new) ==
    LET at == FindFrom(text, old, 1)
    IN  IF at = 0 THEN text
        ELSE SubSeq(text, 1, at - 1) \o new
             \o SubSeq(text, at + Len(old), Len(text))

\* os.path.normpath on Windows, for the paths in use.
NormPath(filepath) == Replace(filepath, Slash, Backslash)

\* utils._convert_mapped_drive_path_to_unc_path, the loop over the mappings
\* from position i on.
RECURSIVE ConvertLoop(_, _, _)
ConvertLoop(filepath, mappings, i) ==
    IF i > Len(mappings) THEN filepath
    ELSE LET unc_prefix == mappings[i].unc_prefix
             mapped_prefix == mappings[i].mapped_drive_prefix
         IN  IF unc_prefix = <<>> \/ mapped_prefix = <<>>
             THEN ConvertLoop(filepath, mappings, i + 1)
             ELSE IF StartsWith(Lower(filepath), Lower(mapped_prefix))
             THEN ReplaceFirst(filepath, mapped_prefix, unc_prefix)
             ELSE ConvertLoop(filepath, mappings, i + 1)

\* utils._convert_mapped_drive_path_to_unc_path
ConvertMappedDrivePathToUncPath(filepath, mappings, os) ==
    IF os # "nt" THEN filepath
    ELSE IF mappings = <<>> THEN filepath
    ELSE ConvertLoop(NormPath(filepath), mappings, 1)

\* SubstancePainterEngine.get_project_path: how the call ends.  file_path()
\* of an unsaved project is None, which os.path.splitext does not take.
GetProjectPath(proj, mappings, os) ==
    IF ~proj.is_open
    THEN [called |-> TRUE, raised |-> "", is_none |-> TRUE, path |-> <<>>]
    ELSE IF proj.file_path = <<>>
    THEN [called |-> TRUE, raised |-> "TypeError", is_none |-> FALSE,
          path |-> <<>>]
    ELSE IF Extension(proj.file_path, os) = SptExtension
    THEN [called |-> TRUE, raised |-> "", is_none |-> TRUE, path |-> <<>>]
    ELSE [called |-> TRUE, raised |-> "", is_none |-> FALSE,
          path |-> ConvertMappedDrivePathToUncPath(proj.file_path, mappings,
                                                   os)]

\* Project files on a mapped drive, next to the paths of the events.
MappedDrivePaths ==
    { <<"Z", ":", "/", "a", ".", "s", "p", "p">>,
      <<"z", ":", "/", "a", ".", "s", "p", "p">>,
      <<"Z", ":", "/", "a", ".", "s", "p", "t">> }

EngineProjects ==
    Projects \cup
        { [is_open |-> TRUE, file_path |-> p] : p \in MappedDrivePaths }

UncMapping ==
    [unc_prefix |-> <<Backslash, Backslash, "s">>,
     mapped_drive_prefix |-> <<"Z", Colon>>]

\* The 'windows_path_mappings' setting: unset, one mapping, and a mapping
\* without UNC prefix before it.
MappingSettings ==
    { <<>>,
      <<UncMapping>>,
      <<[unc_prefix |-> <<>>, mapped_drive_prefix |-> <<"Z", Colon>>],
        UncMapping>> }

ProjectPathInit ==
    /\ MenuIdle
    /\ os_name \in OsNames
    /\ paths = <<>>
    /\ groups = <<>>
    /\ grouped = <<>>
    /\ previous_grouped = <<>>
    /\ calls = 0
    /\ PublishIdle
    /\ engine_current = TRUE
    /\ automatic_context_switch = FALSE
    /\ callbacks_registered = FALSE
    /\ connections = 0
    /\ project \in EngineProjects
    /\ event_result = NoEvent
    /\ windows_path_mappings \in MappingSettings
    /\ returned_path = NoReturn
    /\ BootstrapIdle
    /\ LauncherIdle

\* SubstancePainterEngine.get_project_path
get_project_path ==
    /\ returned_path' =
           GetProjectPath(project, windows_path_mappings, os_name)
    /\ UNCHANGED windows_path_mappings
    /\ UNCHANGED <<menu_vars, grouper_vars, publish_vars, event_vars,
                   bootstrap_vars, launcher_vars>>

ProjectPathNext == get_project_path

ProjectPathSpec == ProjectPathInit /\ [][ProjectPathNext]_vars

(***************************************************************************)
(* Vocabulary of the properties of get_project_path.                       *)
(***************************************************************************)
\* The two paths are equal up to the separator they are written with.
SamePath(a, b) == Replace(a, Slash, Backslash) = Replace(b, Slash, Backslash)

\* The mappings that have both prefixes and whose drive prefix starts the
\* path, whatever the letter case.
ApplicableMappings(p) ==
    { i \in 1..Len(windows_path_mappings) :
          LET m == windows_path_mappings[i]
          IN  /\ m.unc_prefix # <<>>
              /\ m.mapped_drive_prefix # <<>>
              /\ Len(m.mapped_drive_prefix) <= Len(p)
              /\ \A k \in 1..Len(m.mapped_drive_prefix) :
                     LowerChar(p[k]) = LowerChar(m.mapped_drive_prefix[k]) }

\* The path with the drive prefix of its first applicable mapping replaced
\* by the UNC prefix; the path itself off Windows or without such a mapping.
UncForm(p) ==
    IF os_name # "nt" \/ ApplicableMappings(p) = {} THEN p
    ELSE LET i == CHOOSE i \in ApplicableMappings(p) :
                      \A j \in ApplicableMappings(p) : i <= j
             m == windows_path_mappings[i]
         IN  m.unc_prefix
             \o SubSeq(p, Len(m.mapped_drive_prefix) + 1, Len(p))

\* C21: get_project_path returns None when no project is open or the path
\* of the open project has the '.spt' extension in any letter case, which
\* are the paths on_project_event takes for templates; otherwise it returns
\* the path in UNC form.
C21_TemplateAsInProjectEvent ==
    returned_path.called =>
        /\ returned_path.raised = ""
        /\ IF ~project.is_open \/ HasSptExtension(project.file_path)
           THEN returned_path.is_none
           ELSE /\ ~returned_path.is_none
                /\ SamePath(returned_path.path, UncForm(project.file_path))

(***************************************************************************)
(* startup/shotgrid_bootstrap.py: start_toolkit_classic and start_plugin.  *)
(*                                                                         *)
(* os.environ is a record of the three variables the script reads, Unset   *)
(* for a variable that is absent.  Whether sgtk.context.deserialize,       *)
(* sgtk.platform.start_engine and sp.project.open raise is an input.       *)
(***************************************************************************)
\* One call the script made and how it ended.
Call(op, arg, outcome) == [op |-> op, arg |-> arg, outcome |-> outcome]

\* A reading of the environment that takes an empty value for a value.
IsSet(value) == value # Unset

\* os.environ.get(name) is truthy.
Truthy(value) == value # Unset /\ value # ""

\* start_toolkit_classic: whether the engine started, and the calls made.
StartToolkitClassic(env, out) ==
    IF ~Truthy(env.SGTK_ENGINE)
    THEN [started |-> FALSE,
          trace |-> <<Call("sp.logging.error", "SGTK_ENGINE", "done")>>]
    ELSE IF ~Truthy(env.SGTK_CONTEXT)
    THEN [started |-> FALSE,
          trace |-> <<Call("sp.logging.error", "SGTK_CONTEXT", "done")>>]
    ELSE IF out.deserialize_raises
    THEN [started |-> FALSE,
          trace |-> <<Call("deserialize", env.SGTK_CONTEXT, "raised"),
                      Call("sp.logging.error", "context", "done")>>]
    ELSE IF out.start_engine_raises
    THEN [started |-> FALSE,
          trace |-> <<Call("deserialize", env.SGTK_CONTEXT, "done"),
                      Call("start_engine", env.SGTK_ENGINE, "raised"),
                      Call("sp.logging.error", "engine", "done")>>]
    ELSE [started |-> TRUE,
          trace |-> <<Call("deserialize", env.SGTK_CONTEXT, "done"),
                      Call("start_engine", env.SGTK_ENGINE, "done")>>]

\* start_plugin, lines 107-113: the variables deleted, from position i of
\* del_vars on.
DelVars == <<"SGTK_ENGINE", "SGTK_CONTEXT", "SGTK_FILE_TO_OPEN">>

RECURSIVE DeleteFrom(_, _)
DeleteFrom(env, i) ==
    IF i > Len(DelVars) THEN [env |-> env, trace |-> <<>>]
    ELSE IF env[DelVars[i]] # Unset
    THEN LET rest == DeleteFrom([env EXCEPT ![DelVars[i]] = Unset], i + 1)
         IN  [env |-> rest.env,
              trace |-> <<Call("del", DelVars[i], "done")>> \o rest.trace]
    ELSE DeleteFrom(env, i + 1)

\* What the three library calls do in one run of the script.
Outcomes ==
    [deserialize_raises : BOOLEAN, start_engine_raises : BOOLEAN,
     open_raises : BOOLEAN]

\* The environment Substance Painter is started in: by the launcher, by
\* hand, or with variables left empty.
Environments ==
    [SGTK_ENGINE : {Unset, "", "tk-substancepainter"},
     SGTK_CONTEXT : {Unset, "", "context"},
     SGTK_FILE_TO_OPEN : {Unset, "", "a.spp"}]

BootstrapInit ==
    /\ MenuIdle
    /\ GrouperIdle
    /\ PublishIdle
    /\ EventIdle
    /\ EnginePathIdle
    /\ LauncherIdle
    /\ environ \in Environments
    /\ environ_before = NoEnvironment
    /\ sgtk_importable \in BOOLEAN
    /\ engine_started = FALSE
    /\ plugin_state = "not run"
    /\ plugin_trace = <<>>

\* start_plugin, which Substance Painter calls once when it loads the
\* script.
start_plugin ==
    /\ plugin_state = "not run"
    /\ environ_before' = environ
    /\ \E out \in Outcomes :
          IF ~sgtk_importable
          THEN /\ plugin_trace' = <<Call("sp.logging.info", "import", "done")>>
               /\ plugin_state' = "returned"
               /\ UNCHANGED <<environ, engine_started>>
          ELSE LET classic == StartToolkitClassic(environ, out)
                   file_to_open == environ.SGTK_FILE_TO_OPEN
                   deleted == DeleteFrom(environ, 1)
               IN  /\ engine_started' = classic.started
                   /\ IF Truthy(file_to_open) /\ out.open_raises
                      THEN /\ plugin_trace' =
                                  classic.trace
                                  \o <<Call("open", file_to_open, "raised")>>
                           /\ plugin_state' = "raised"
                           /\ UNCHANGED environ
                      ELSE /\ plugin_trace' =
                                  classic.trace
                                  \o (IF Truthy(file_to_open)
                                      THEN <<Call("open", file_to_open, "done")>>
                                      ELSE <<>>)
                                  \o deleted.trace
                           /\ plugin_state' = "returned"
                           /\ environ' = deleted.env
    /\ UNCHANGED sgtk_importable
    /\ UNCHANGED <<menu_vars, grouper_vars, publish_vars, event_vars,
                   engine_path_vars, launcher_vars>>

BootstrapNext == start_plugin

BootstrapSpec == BootstrapInit /\ [][BootstrapNext]_vars

(***************************************************************************)
(* Vocabulary of the properties of the bootstrap.                          *)
(***************************************************************************)
PluginRan == plugin_state # "not run"

\* The positions of the trace holding a call of op.
CallsOf(op) == { i \in 1..Len(plugin_trace) : plugin_trace[i].op = op }

\* The variable was set to a non-empty value when the script was loaded.
WasGiven(var) == environ_before[var] \notin {Unset, ""}

ContextDeserialised ==
    \E i \in CallsOf("deserialize") : plugin_trace[i].outcome = "done"

EngineStartReturned ==
    \E i \in CallsOf("start_engine") : plugin_trace[i].outcome = "done"

\* C22: start_toolkit_classic starts the engine only if SGTK_ENGINE and
\* SGTK_CONTEXT are both set and non-empty and the context deserialises;
\* when one of these fails or start_engine raises, it logs one error, starts
\* no engine, and returns: the calls of start_plugin that follow it are
\* made.
C22_EngineOnlyFromCompleteEnvironment ==
    PluginRan /\ sgtk_importable =>
        /\ engine_started =>
               /\ WasGiven("SGTK_ENGINE")
               /\ WasGiven("SGTK_CONTEXT")
               /\ ContextDeserialised
               /\ EngineStartReturned
        /\ engine_started <=> CallsOf("sp.logging.error") = {}
        /\ Cardinality(CallsOf("sp.logging.error")) <= 1
        /\ ~(WasGiven("SGTK_ENGINE") /\ WasGiven("SGTK_CONTEXT")) =>
               /\ ~engine_started
               /\ CallsOf("deserialize") = {}
               /\ CallsOf("start_engine") = {}
        /\ ~ContextDeserialised => CallsOf("start_engine") = {}
        /\ ~engine_started /\ WasGiven("SGTK_FILE_TO_OPEN") =>
               CallsOf("open") # {}

\* The engine was not started because SGTK_CONTEXT was empty, and the file
\* to open was opened all the same.
C22_Witness ==
    /\ plugin_state = "returned"
    /\ sgtk_importable
    /\ environ_before.SGTK_ENGINE = "tk-substancepainter"
    /\ environ_before.SGTK_CONTEXT = ""
    /\ ~engine_started
    /\ CallsOf("open") # {}

\* C23: when sgtk can be imported, start_plugin ends with the three
\* variables absent from the environment, whether or not the engine
\* started; it opens the file named by SGTK_FILE_TO_OPEN exactly when the
\* variable named one, after the engine start attempt and before the
\* variables are removed.  When sgtk cannot be imported the environment is
\* untouched and no file is opened.
C23_EnvironmentClearedFileOpened ==
    PluginRan =>
        IF sgtk_importable
        THEN /\ environ = NoEnvironment
             /\ CallsOf("open") # {} <=> WasGiven("SGTK_FILE_TO_OPEN")
             /\ \A o \in CallsOf("open") :
                    /\ plugin_trace[o].arg = environ_before.SGTK_FILE_TO_OPEN
                    /\ \A i \in CallsOf("deserialize") \cup CallsOf("start_engine")
                                \cup CallsOf("sp.logging.error") : i < o
                    /\ \A d \in CallsOf("del") : o < d
        ELSE /\ environ = environ_before
             /\ CallsOf("open") = {}
             /\ ~engine_started

(***************************************************************************)
(* startup.py: SubstancePainterLauncher.copy_file and prepare_launch.      *)
(*                                                                         *)
(* The file system is a function from the paths in use to the content of   *)
(* the file there, Absent for none, and the set of existing directories.   *)
(* Whether shutil.copy2 raises, and whether it then left a partly written  *)
(* target behind, is an input of each call.                                *)
(***************************************************************************)
Absent == "absent"

\* os.path.join(directory, filename)
Join(directory, filename, os) == directory \o <<PathSep(os)>> \o filename

\* The engine's startup script and its export preset, in the package.
BootstrapScript == <<"p", "/", "b">>
ExportPreset == <<"p", "/", "x">>

\* The user's python startup and export presets directories.
StartupDirectory == <<"u", "/", "s">>
PresetsDirectory == <<"u", "/", "e">>

SourcePaths == {BootstrapScript, ExportPreset}
TargetDirectories == {StartupDirectory, PresetsDirectory}

TargetPaths(os) ==
    { Join(d, Basename(f, os), os) : d \in TargetDirectories, f \in SourcePaths }

CopyOutcomes == {"done", "raised", "raised, target partly written"}

\* A copy that does not look at what is there.
CopyFileOver(fs, ds, source_path, target_directory, overwrite, os, outcome) ==
    LET target_path == Join(target_directory, Basename(source_path, os), os)
    IN  IF fs[source_path] = Absent
        THEN [files |-> fs, raised |-> "FileNotFoundError", returned |-> <<>>]
        ELSE IF target_directory \notin ds
        THEN [files |-> fs, raised |-> "NotADirectoryError", returned |-> <<>>]
        ELSE IF outcome = "done"
        THEN [files |-> [fs EXCEPT ![target_path] = fs[source_path]],
              raised |-> "", returned |-> target_path]
        ELSE [files |-> fs, raised |-> "Exception", returned |-> <<>>]

\* SubstancePainterLauncher.copy_file: the file system after the call, the
\* exception raised if any, and the value returned (None is <<>>).
CopyFile(fs, ds, source_path, target_directory, overwrite, os, outcome) ==
    LET filename == Basename(source_path, os)
        target_path == Join(target_directory, filename, os)
    IN  IF fs[source_path] = Absent
        THEN [files |-> fs, raised |-> "FileNotFoundError", returned |-> <<>>]
        ELSE IF target_directory \notin ds
        THEN [files |-> fs, raised |-> "NotADirectoryError", returned |-> <<>>]
        ELSE IF fs[target_path] # Absent /\ ~overwrite
        THEN [files |-> fs, raised |-> "", returned |-> <<>>]
        ELSE IF outcome = "done"
        THEN [files |-> [fs EXCEPT ![target_path] = fs[source_path]],
              raised |-> "", returned |-> target_path]
        ELSE IF outcome = "raised"
        THEN [files |-> fs, raised |-> "Exception", returned |-> <<>>]
        ELSE [files |-> [fs EXCEPT ![target_path] = "partly written"],
              raised |-> "Exception", returned |-> <<>>]

\* prepare_launch, lines 118-126: the environment of the launch.
RequiredEnv(file_to_open) ==
    [SGTK_ENGINE |-> "tk-substancepainter",
     SGTK_CONTEXT |-> "context",
     SGTK_FILE_TO_OPEN |-> IF Truthy(file_to_open) THEN file_to_open
                           ELSE Unset]

\* The file systems a launch can find: the package files shipped or
\* missing, the user's copies missing, the user's own or as shipped.
FileSystems(os) ==
    { fs \in [SourcePaths \cup TargetPaths(os) ->
                  {Absent, "shipped", "user's"}] :
          /\ \A f \in SourcePaths : fs[f] # "user's"
          /\ fs[Join(StartupDirectory, Basename(ExportPreset, os), os)] = Absent
          /\ fs[Join(PresetsDirectory, Basename(BootstrapScript, os), os)]
                 = Absent }

LauncherInit ==
    /\ MenuIdle
    /\ os_name \in OsNames
    /\ paths = <<>>
    /\ groups = <<>>
    /\ grouped = <<>>
    /\ previous_grouped = <<>>
    /\ calls = 0
    /\ PublishIdle
    /\ EventIdle
    /\ EnginePathIdle
    /\ BootstrapIdle
    /\ files \in FileSystems(os_name)
    /\ dirs \in SUBSET TargetDirectories
    /\ copy_result = NoCopy
    /\ launch_state = NoLaunch

\* SubstancePainterLauncher.copy_file, called once on the file system
\* found.
copy_file ==
    /\ ~copy_result.called
    /\ \E source_path \in SourcePaths, target_directory \in TargetDirectories,
          overwrite \in BOOLEAN, outcome \in CopyOutcomes :
          LET did == CopyFile(files, dirs, source_path, target_directory,
                              overwrite, os_name, outcome)
          IN  /\ files' = did.files
              /\ copy_result' =
                     [called |-> TRUE, source_path |-> source_path,
                      target_directory |-> target_directory,
                      overwrite |-> overwrite, raised |-> did.raised,
                      returned |-> did.returned, before |-> files]
    /\ UNCHANGED <<dirs, launch_state>>
    /\ UNCHANGED <<menu_vars, grouper_vars, publish_vars, event_vars,
                   engine_path_vars, bootstrap_vars>>

\* SubstancePainterLauncher.prepare_launch: the bootstrap script is copied
\* with overwrite=True, then every '.spexp' file listed in the package with
\* overwrite=False, then the environment of the launch is put together.
\* One launch on the file system found.
prepare_launch ==
    /\ ~copy_result.called
    /\ \E file_to_open \in {Unset, "", "a.spp"},
          first \in CopyOutcomes, second \in CopyOutcomes :
          LET script == CopyFile(files, dirs, BootstrapScript,
                                 StartupDirectory, TRUE, os_name, first)
              listed == script.files[ExportPreset] # Absent
              preset == CopyFile(script.files, dirs, ExportPreset,
                                 PresetsDirectory, FALSE, os_name, second)
              last == IF script.raised = "" /\ listed THEN preset ELSE script
          IN  /\ files' = last.files
              /\ copy_result' =
                     IF script.raised = "" /\ listed
                     THEN [called |-> TRUE, source_path |-> ExportPreset,
                           target_directory |-> PresetsDirectory,
                           overwrite |-> FALSE, raised |-> preset.raised,
                           returned |-> preset.returned,
                           before |-> script.files]
                     ELSE [called |-> TRUE, source_path |-> BootstrapScript,
                           target_directory |-> StartupDirectory,
                           overwrite |-> TRUE, raised |-> script.raised,
                           returned |-> script.returned, before |-> files]
              /\ IF last.raised = ""
                 THEN /\ launch_state' = [state |-> "returned", before |-> files]
                      /\ environ' = RequiredEnv(file_to_open)
                 ELSE /\ launch_state' = [state |-> "raised", before |-> files]
                      /\ UNCHANGED environ
    /\ UNCHANGED <<dirs, environ_before, sgtk_importable, engine_started,
                   plugin_state, plugin_trace>>
    /\ UNCHANGED <<menu_vars, grouper_vars, publish_vars, event_vars,
                   engine_path_vars>>

LauncherNext ==
    \/ copy_file
    \/ prepare_launch

LauncherSpec == LauncherInit /\ [][LauncherNext]_vars

(***************************************************************************)
(* Vocabulary of the properties of the launcher.                           *)
(***************************************************************************)
\* Where a copy of the source into the directory goes.
TargetOf(source_path, target_directory) ==
    target_directory \o <<IF os_name = "nt" THEN Backslash ELSE Slash>>
        \o FinalComponent(source_path)

CopyTarget == TargetOf(copy_result.source_path, copy_result.target_directory)

SourceAndDirectoryThere ==
    /\ copy_result.before[copy_result.source_path] # Absent
    /\ copy_result.target_directory \in dirs

\* The last copy_file call changed no file, but possibly its target.
OnlyTargetChanged ==
    \A f \in DOMAIN files : f # CopyTarget => files[f] = copy_result.before[f]

ScriptTarget == TargetOf(BootstrapScript, StartupDirectory)
PresetTarget == TargetOf(ExportPreset, PresetsDirectory)

Launched == launch_state.state # "not run"

\* What copy_file does when it finds the target and may not overwrite it,
\* and when the source or the directory is missing.
CopyFileLeavesAlone ==
    /\ /\ SourceAndDirectoryThere
       /\ ~copy_result.overwrite
       /\ copy_result.before[CopyTarget] # Absent
       => /\ copy_result.raised = ""
          /\ copy_result.returned = <<>>
          /\ files = copy_result.before
    /\ ~SourceAndDirectoryThere
       => /\ copy_result.raised \in {"FileNotFoundError", "NotADirectoryError"}
          /\ files = copy_result.before

\* C24 as stated: with overwrite=False an existing target is left as it
\* was and None is returned; with overwrite=True the target is always
\* replaced; a missing source or directory raises and copies nothing;
\* prepare_launch always refreshes the bootstrap script, if the script and
\* the startup directory are there, and never overwrites a preset the user
\* has.
C24_Original_OverwriteAlwaysReplaces ==
    /\ copy_result.called =>
           /\ CopyFileLeavesAlone
           /\ SourceAndDirectoryThere /\ copy_result.overwrite
              => files[CopyTarget] = copy_result.before[copy_result.source_path]
    /\ Launched =>
           /\ /\ launch_state.before[BootstrapScript] # Absent
              /\ StartupDirectory \in dirs
              => files[ScriptTarget] = launch_state.before[BootstrapScript]
           /\ launch_state.before[PresetTarget] # Absent
              => files[PresetTarget] = launch_state.before[PresetTarget]

\* C24: with overwrite=False an existing target is left as it was and None
\* is returned; a missing source or directory raises and copies nothing; in
\* every other call copy_file either returns the target path with the
\* target holding the content of the source, or re-raises the exception of
\* the copy, and no file but the target is touched.  prepare_launch leaves
\* a preset the user has as it was, and when it returns the bootstrap
\* script in the user's directory is the package's.
C24_OverwriteReplacesUnlessCopyRaises ==
    /\ copy_result.called =>
           /\ CopyFileLeavesAlone
           /\ OnlyTargetChanged
           /\ /\ SourceAndDirectoryThere
              /\ copy_result.overwrite \/ copy_result.before[CopyTarget] = Absent
              => \/ /\ copy_result.raised = ""
                    /\ copy_result.returned = CopyTarget
                    /\ files[CopyTarget] =
                           copy_result.before[copy_result.source_path]
                 \/ /\ copy_result.raised = "Exception"
                    /\ copy_result.returned = <<>>
    /\ Launched =>
           /\ launch_state.before[PresetTarget] # Absent
              => files[PresetTarget] = launch_state.before[PresetTarget]
           /\ launch_state.state = "returned"
              => /\ files[ScriptTarget] = launch_state.before[BootstrapScript]
                 /\ files[ScriptTarget] # Absent

\* A launch on Windows returned: it replaced the user's own copy of the
\* bootstrap script and kept the user's own preset.
C24_Witness ==
    /\ launch_state.state = "returned"
    /\ os_name = "nt"
    /\ launch_state.before[ScriptTarget] = "user's"
    /\ launch_state.before[PresetTarget] = "user's"
    /\ files[ScriptTarget] = "shipped"
    /\ files[PresetTarget] = "user's"
    /\ copy_result.returned = <<>>

(***************************************************************************)
(* Vocabulary of the partition of the input.                               *)
(***************************************************************************)
\* How many times p stands in the sequence s.
Occurrences(s, p) == Cardinality({ i \in 1..Len(s) : s[i] = p })

\* How many times p stands in the first n groups of the result.
RECURSIVE OccurrencesInGroups(_, _)
OccurrencesInGroups(p, n) ==
    IF n = 0 THEN 0
    ELSE Occurrences(grouped[n], p) + OccurrencesInGroups(p, n - 1)

\* The number of paths in the first n groups of the result.
RECURSIVE PathsInGroups(_)
PathsInGroups(n) ==
    IF n = 0 THEN 0 ELSE Len(grouped[n]) + PathsInGroups(n - 1)

\* The groups of the result that hold p.
GroupsHolding(p) == { g \in 1..Len(grouped) : p \in Members(g) }

(***************************************************************************)
(* C25: _group_texture_sequences returns a partition of its input: every   *)
(* path stands in the groups as many times as in the input and in one      *)
(* group only, no group is empty, no path absent from the input appears,   *)
(* and the groups hold as many paths in all as the input.                  *)
(***************************************************************************)
C25_GroupsPartitionInput ==
    Grouped =>
        /\ \A g \in 1..Len(grouped) : grouped[g] # <<>>
        /\ \A g \in 1..Len(grouped) :
              \A i \in 1..Len(grouped[g]) :
                  \E a \in 1..Len(paths) : paths[a] = grouped[g][i]
        /\ \A a \in 1..Len(paths) :
              /\ OccurrencesInGroups(paths[a], Len(grouped))
                     = Occurrences(paths, paths[a])
              /\ Cardinality(GroupsHolding(paths[a])) = 1
        /\ PathsInGroups(Len(grouped)) = Len(paths)

\* A path handed over twice with another map between: two groups, the
\* first holding both occurrences.
C25_Witness ==
    /\ Grouped
    /\ Len(paths) = 3
    /\ paths[1] = paths[3]
    /\ paths[1] # paths[2]
    /\ Len(grouped) = 2
    /\ Len(grouped[1]) = 2
    /\ Len(grouped[2]) = 1

====
